---- MODULE Spec2Model ----
(***************************************************************************)
(* A model of the api-smtp e-mail gateway.                                 *)
(*                                                                         *)
(*   outbound  src/main.py: send_email accepts a request, send_email_task  *)
(*             assembles the message, talks SMTP and writes the result     *)
(*             file data/{date}/{success|failure}/{email_id}.json          *)
(*   inbound   src/src/app/email_receiver.py: EmailReceiver polls MailDev, *)
(*             stores each unread message in the received_emails bucket    *)
(*             and marks it read                                           *)
(*                                                                         *)
(* Every call that leaves the process (object storage, SMTP, the MailDev   *)
(* HTTP API, the local file system) either works or fails; the failing     *)
(* outcomes are drawn with \E in the action that makes the call.           *)
(***************************************************************************)
EXTENDS Integers, Sequences, FiniteSets, TLC

VARIABLES
    cfg,        \* smtp_config: use_ssl, use_tls, use_password (main.py:32)
    tz,         \* the host's offset from UTC, in half days
    clock,      \* the time of the sender's host in UTC, in half days
    nextId,     \* number of send requests received so far (uuid4 is fresh)
    task,       \* per request: the state of send_email / send_email_task
    results,    \* data/{date}/{status}/{id}.json : path -> result
    debugFiles, \* data/{date}/debug/{id}_email.txt : set of <<date, id>>
    writes,     \* per request: how often a result file was written
    now,        \* the wall clock in seconds (datetime.now() in email_receiver.py)
    inbox,      \* MailDev: the ids of the messages it holds, in arrival order
    read,       \* MailDev: the ids marked read
    store,      \* the received_emails bucket: object name -> content
    rcv,        \* per receiver: the state of listen_for_emails
    faults,     \* number of failed calls so far on the inbound side
    marked,     \* ids mark_email_as_read was invoked for
    listed,     \* ids get_unread_emails ever returned
    saves,      \* per id: the seconds at which its record was put
    query,      \* the query of the last search_received_emails call
    found,      \* what that call returned
    request,    \* the last call of the MCP read interface (mcp_server.py)
    response    \* what that call returned

outVars == <<cfg, tz, clock, nextId, task, results, debugFiles, writes>>

inVars == <<now, inbox, read, store, rcv, faults, marked, listed, saves>>

readVars == <<query, found, request, response>>

----------------------------------------------------------------------------
(* Bounds of the model *)

MaxRequests == 1
MaxDay == 1
MaxConcurrent == 2

\* The ids of the requests: those received one after the other, or those in
\* flight at the same time.
RequestIds == 1..(IF MaxRequests >= MaxConcurrent THEN MaxRequests ELSE MaxConcurrent)

SeqsOver(S) == UNION {[1..k -> S] : k \in 0..2}

\* The attachment lists a request is sent with: none, or two files of
\* different kinds.
AttachmentLists == {<< >>, <<"a.txt", "b.bin">>}

----------------------------------------------------------------------------
(* smtplib's exception classes and the except chain of send_email_task *)

\* The direct base class of each exception class the calls can raise.
BaseOf(cls) ==
    CASE cls = "SMTPAuthenticationError" -> "SMTPResponseException"
      [] cls = "SMTPConnectError"        -> "SMTPResponseException"
      [] cls = "SMTPSenderRefused"       -> "SMTPResponseException"
      [] cls = "SMTPDataError"           -> "SMTPResponseException"
      [] cls = "SMTPHeloError"           -> "SMTPResponseException"
      [] cls = "SMTPResponseException"   -> "SMTPException"
      [] cls = "SMTPRecipientsRefused"   -> "SMTPException"
      [] cls = "SMTPServerDisconnected"  -> "SMTPException"
      [] cls = "SMTPNotSupportedError"   -> "SMTPException"
      [] cls = "SMTPException"           -> "OSError"
      [] cls = "S3Error"                 -> "Exception"
      [] cls = "UnicodeDecodeError"      -> "ValueError"
      [] cls = "ValueError"              -> "Exception"
      [] cls = "OSError"                 -> "Exception"
      [] cls = "HTTPException"           -> "Exception"
      [] OTHER                           -> "BaseException"

RECURSIVE IsInstance(_, _)
IsInstance(cls, base) ==
    IF cls = base THEN TRUE
    ELSE IF cls = "BaseException" THEN FALSE
    ELSE IsInstance(BaseOf(cls), base)

\* What each step of the dispatch can raise.
Raises(step) ==
    CASE step = "attach"   -> {"S3Error"}
      [] step = "decode"   -> {"UnicodeDecodeError"}
      [] step = "connect"  -> {"SMTPConnectError", "OSError"}
      [] step = "starttls" -> {"SMTPNotSupportedError"}
      [] step = "login"    -> {"SMTPAuthenticationError"}
      [] step = "sendmail" -> {"SMTPRecipientsRefused", "SMTPSenderRefused",
                               "SMTPDataError"}
      [] step = "quit"     -> {"SMTPResponseException"}
      [] step = "save"     -> {"OSError"}
      [] OTHER             -> {}

\* str(e): the text of the exception, here the step that raised it.
ExcText(step) == step

\* The except clauses of send_email_task in source order: <<class, detail>>;
\* the last two details are f-strings ending in str(e).
ExceptChainSwapped(text) ==
    << <<"SMTPException", "An SMTP error occurred: " \o text>>,
       <<"SMTPAuthenticationError", "Authentication failed. Check your username and password.">>,
       <<"SMTPConnectError", "Failed to connect to the SMTP server.">>,
       <<"SMTPRecipientsRefused", "Recipient address rejected by the server.">>,
       <<"SMTPSenderRefused", "Sender address rejected by the server.">>,
       <<"SMTPDataError", "The SMTP server refused to accept the message data.">>,
       <<"Exception", "An unexpected error occurred: " \o text>> >>

ExceptChain(text) ==
    << <<"SMTPAuthenticationError", "Authentication failed. Check your username and password.">>,
       <<"SMTPConnectError", "Failed to connect to the SMTP server.">>,
       <<"SMTPRecipientsRefused", "Recipient address rejected by the server.">>,
       <<"SMTPSenderRefused", "Sender address rejected by the server.">>,
       <<"SMTPDataError", "The SMTP server refused to accept the message data.">>,
       <<"SMTPException", "An SMTP error occurred: " \o text>>,
       <<"Exception", "An unexpected error occurred: " \o text>> >>

\* The detail of the first except clause that matches the raised class.
HandlerDetail(cls, text) ==
    LET chain == ExceptChain(text)
        hits == {i \in 1..Len(chain) : IsInstance(cls, chain[i][1])}
        first == CHOOSE i \in hits : \A j \in hits : i <= j
    IN chain[first][2]

----------------------------------------------------------------------------
(* The result store of main.py: files under data/ *)

\* The hosts run at UTC or half a day ahead of it.
TimeZones == {0, 1}

\* datetime.now(): the naive local time of the host
LocalNow(utc, offset) == utc + offset

\* strftime("%Y-%m-%d"): the calendar date of a time given in half days
DateStr(t) == t \div 2

StatusDir(status) == IF status = "success" THEN "success" ELSE "failure"

ResultPath(date, status, id) == <<date, StatusDir(status), id>>

\* save_email_result: open(path, "w") creates or replaces the file.
SaveEmailResult(fs, id, status, detail, t, length) ==
    LET path == ResultPath(DateStr(t), status, id)
        rec == [email_id |-> id, status |-> status, detail |-> detail,
                timestamp |-> t, message_length |-> length]
    IN [p \in DOMAIN fs \cup {path} |-> IF p = path THEN rec ELSE fs[p]]

ResultsOf(id) == {p \in DOMAIN results : p[3] = id}

----------------------------------------------------------------------------
(* Initial state *)

\* smtp: the SMTP steps the task has taken so far, in order
NoTask == [pc |-> "none", debug |-> FALSE, atts |-> <<>>, parts |-> <<>>,
           exc |-> "none", text |-> "", sent |-> FALSE, smtp |-> <<>>]

InitOut ==
    /\ cfg \in [use_ssl : BOOLEAN, use_tls : BOOLEAN, use_password : BOOLEAN]
    /\ tz \in TimeZones
    /\ clock = 0
    /\ nextId = 1
    /\ task = [i \in RequestIds |-> NoTask]
    /\ results = << >>
    /\ debugFiles = {}
    /\ writes = [i \in RequestIds |-> 0]

----------------------------------------------------------------------------
(* send_email: the acceptance boundary *)

\* upload_to_minio names the object {uuid4}_{filename}; the uuid is fresh.
UploadName(id, j, filename) == <<id, j, filename>>

\* POST /send-email with `files` attached; `up` of the uploads work. An upload
\* that fails raises out of the handler: no id is returned and no task is queued.
SendEmail(debug, files, up) ==
    /\ nextId \in RequestIds
    /\ up \in 0..Len(files)
    /\ LET id == nextId
           names == [j \in 1..Len(files) |-> UploadName(id, j, files[j])]
       IN task' = [task EXCEPT ![id] =
               IF up = Len(files)
               THEN [NoTask EXCEPT !.pc = "assemble", !.debug = debug, !.atts = names]
               ELSE [NoTask EXCEPT !.pc = "rejected"]]
    /\ nextId' = nextId + 1
    /\ UNCHANGED <<cfg, tz, clock, results, debugFiles, writes, inVars, readVars>>

----------------------------------------------------------------------------
(* add_attachment: the MIME part built for a staged object *)

\* The file names requests are sent with, one for each way guess_type answers.
Filenames == {"a.txt", "b.bin", "c.png", "d.mp3", "e.pdf", "f.tar.gz", "h.txt.gz",
              "noext"}

\* mimetypes.guess_type(filename): the type the extension maps to (None when it
\* maps to none) and the encoding a compression suffix stands for
GuessType(filename) ==
    CASE filename = "a.txt"    -> [ctype |-> <<"text", "plain">>, encoding |-> "none"]
      [] filename = "b.bin"    -> [ctype |-> <<"application", "octet-stream">>, encoding |-> "none"]
      [] filename = "c.png"    -> [ctype |-> <<"image", "png">>, encoding |-> "none"]
      [] filename = "d.mp3"    -> [ctype |-> <<"audio", "mpeg">>, encoding |-> "none"]
      [] filename = "e.pdf"    -> [ctype |-> <<"application", "pdf">>, encoding |-> "none"]
      [] filename = "f.tar.gz" -> [ctype |-> <<"application", "x-tar">>, encoding |-> "gzip"]
      [] filename = "h.txt.gz" -> [ctype |-> <<"text", "plain">>, encoding |-> "gzip"]
      [] OTHER                 -> [ctype |-> <<"none", "none">>, encoding |-> "none"]

\* object_name.split("_", 1)[1]: what follows the uuid of the staged name
FilenameOf(object_name) == object_name[3]

\* lines 92-94: the type the part is built with
ContentTypeAsGuessed(g) ==
    IF g.ctype[1] = "none" THEN <<"application", "octet-stream">> ELSE g.ctype

ContentType(g) ==
    IF g.ctype[1] = "none" \/ g.encoding # "none"
    THEN <<"application", "octet-stream">>
    ELSE g.ctype

\* lines 96-107: MIMEText chooses the transfer encoding by the charset of the
\* text, MIMEImage and MIMEAudio encode base64, MIMEBase is encoded with
\* encoders.encode_base64.
AddAttachment(object_name) ==
    LET filename == FilenameOf(object_name)
        ctype == ContentType(GuessType(filename))
        maintype == ctype[1]
        subtype == ctype[2]
    IN [class |-> CASE maintype = "text"  -> "MIMEText"
                    [] maintype = "image" -> "MIMEImage"
                    [] maintype = "audio" -> "MIMEAudio"
                    [] OTHER              -> "MIMEBase",
        maintype |-> maintype, subtype |-> subtype,
        cte |-> IF maintype = "text" THEN "by charset" ELSE "base64",
        filename |-> filename, source |-> object_name]

\* line 119: MIMEText(email_request.body, "plain")
BodyPart == [class |-> "MIMEText", maintype |-> "text", subtype |-> "plain",
             cte |-> "by charset", filename |-> "", source |-> <<>>]

----------------------------------------------------------------------------
(* send_email_task, one action per call that can fail *)

Goto(id, pc) == task' = [task EXCEPT ![id].pc = pc]

\* An exception raised by `step` inside the try block; inside the with block
\* the context manager's __exit__ (QUIT) runs before the handler.
RaiseTo(id, cls, step, pc) ==
    task' = [task EXCEPT ![id].pc = pc, ![id].exc = cls, ![id].text = ExcText(step)]

\* The same two for a call that talks to the SMTP server.
SmtpGoto(id, step, pc) ==
    task' = [task EXCEPT ![id].pc = pc, ![id].smtp = Append(@, step)]

SmtpRaiseTo(id, cls, step, pc) ==
    task' = [task EXCEPT ![id].pc = pc, ![id].exc = cls, ![id].text = ExcText(step),
                         ![id].smtp = Append(@, step)]

\* lines 112-119: the multipart message and its text body
Assemble(id) ==
    /\ task[id].pc = "assemble"
    /\ task' = [task EXCEPT ![id].pc = "attach", ![id].parts = <<BodyPart>>]
    /\ UNCHANGED <<cfg, tz, clock, nextId, results, debugFiles, writes, inVars, readVars>>

\* message.attach(part): the part goes to the end of the payload list
AttachPartFirst(parts, part) == <<part>> \o parts

AttachPart(parts, part) == Append(parts, part)

\* An exception add_attachment raises is not caught in the loop: it ends the
\* try block.
OnAttachErrorSkip(id, cls, step) == Goto(id, "connect")

OnAttachError(id, cls, step) == RaiseTo(id, cls, step, "handler")

\* lines 121-127: add_attachment for the next reference, in order; get_object
\* can fail for every reference, decode('utf-8') for one of a text type
Attach(id) ==
    /\ task[id].pc = "attach"
    /\ LET n == Len(task[id].parts)
       IN IF n > Len(task[id].atts)
          THEN Goto(id, "connect")
          ELSE \/ task' = [task EXCEPT ![id].parts =
                              AttachPart(@, AddAttachment(task[id].atts[n]))]
               \/ \E cls \in Raises("attach") : OnAttachError(id, cls, "attach")
               \/ /\ AddAttachment(task[id].atts[n]).maintype = "text"
                  /\ \E cls \in Raises("decode") : OnAttachError(id, cls, "decode")
    /\ UNCHANGED <<cfg, tz, clock, nextId, results, debugFiles, writes, inVars, readVars>>

\* a variant that looks at use_tls whatever the class of the connection
AfterConnectTlsFirst ==
    IF cfg.use_tls THEN "starttls"
    ELSE IF cfg.use_password THEN "login" ELSE "sendmail"

\* lines 131 / 136-138: the first call inside the with block
AfterConnect ==
    IF cfg.use_ssl
    THEN IF cfg.use_password THEN "login" ELSE "sendmail"
    ELSE IF cfg.use_tls THEN "starttls"
         ELSE IF cfg.use_password THEN "login" ELSE "sendmail"

\* lines 130 / 135: smtplib.SMTP_SSL(...) or smtplib.SMTP(...)
Connect(id) ==
    /\ task[id].pc = "connect"
    /\ \/ SmtpGoto(id, "connect", AfterConnect)
       \/ \E cls \in Raises("connect") : SmtpRaiseTo(id, cls, "connect", "handler")
    /\ UNCHANGED <<cfg, tz, clock, nextId, results, debugFiles, writes, inVars, readVars>>

\* line 137: server.starttls()
StartTls(id) ==
    /\ task[id].pc = "starttls"
    /\ \/ SmtpGoto(id, "starttls", IF cfg.use_password THEN "login" ELSE "sendmail")
       \/ \E cls \in Raises("starttls") : SmtpRaiseTo(id, cls, "starttls", "quit")
    /\ UNCHANGED <<cfg, tz, clock, nextId, results, debugFiles, writes, inVars, readVars>>

\* lines 132 / 139: server.login(...)
Login(id) ==
    /\ task[id].pc = "login"
    /\ \/ SmtpGoto(id, "login", "sendmail")
       \/ \E cls \in Raises("login") : SmtpRaiseTo(id, cls, "login", "quit")
    /\ UNCHANGED <<cfg, tz, clock, nextId, results, debugFiles, writes, inVars, readVars>>

\* lines 133 / 140: server.sendmail(...)
Sendmail(id) ==
    /\ task[id].pc = "sendmail"
    /\ \/ task' = [task EXCEPT ![id].pc = "quit", ![id].sent = TRUE,
                                ![id].smtp = Append(@, "sendmail")]
       \/ \E cls \in Raises("sendmail") : SmtpRaiseTo(id, cls, "sendmail", "quit")
    /\ UNCHANGED <<cfg, tz, clock, nextId, results, debugFiles, writes, inVars, readVars>>

\* leaving the with block: SMTP.__exit__ sends QUIT and raises
\* SMTPResponseException on a reply other than 221, replacing any exception
\* already in flight.
Quit(id) ==
    /\ task[id].pc = "quit"
    /\ \/ SmtpGoto(id, "quit", IF task[id].exc = "none" THEN "save_success" ELSE "handler")
       \/ \E cls \in Raises("quit") : SmtpRaiseTo(id, cls, "quit", "handler")
    /\ UNCHANGED <<cfg, tz, clock, nextId, results, debugFiles, writes, inVars, readVars>>

\* line 142: save_email_result(email_id, "success", ...)
SaveSuccess(id) ==
    /\ task[id].pc = "save_success"
    /\ \/ /\ results' = SaveEmailResult(results, id, "success",
                            "Email sent successfully", LocalNow(clock, tz),
                            Len(task[id].parts))
          /\ writes' = [writes EXCEPT ![id] = @ + 1]
          /\ Goto(id, IF task[id].debug THEN "save_debug" ELSE "done")
       \/ /\ \E cls \in Raises("save") : RaiseTo(id, cls, "save", "handler")
          /\ UNCHANGED <<results, writes>>
    /\ UNCHANGED <<cfg, tz, clock, nextId, debugFiles, inVars, readVars>>

\* lines 144-145: save_debug_email(email_id, message)
SaveDebug(id) ==
    /\ task[id].pc = "save_debug"
    /\ \/ /\ debugFiles' = debugFiles \cup {<<DateStr(LocalNow(clock, tz)), id>>}
          /\ Goto(id, "done")
       \/ /\ \E cls \in Raises("save") : RaiseTo(id, cls, "save", "handler")
          /\ UNCHANGED debugFiles
    /\ UNCHANGED <<cfg, tz, clock, nextId, results, writes, inVars, readVars>>

\* Where the task goes after an except clause: each clause ends the function.
AfterHandlerRetry(t) == IF Len(SelectSeq(t.smtp, LAMBDA x : x = "connect")) < 2
                        THEN "connect" ELSE "done"

AfterHandler(t) == "done"

\* lines 147-160: the except clause that matches writes the failure result;
\* when that write fails too, the exception leaves the task.
Handler(id) ==
    /\ task[id].pc = "handler"
    /\ \/ /\ results' = SaveEmailResult(results, id, "failure",
                            HandlerDetail(task[id].exc, task[id].text),
                            LocalNow(clock, tz), 0)
          /\ writes' = [writes EXCEPT ![id] = @ + 1]
          /\ Goto(id, AfterHandler(task[id]))
       \/ /\ Goto(id, "crashed")
          /\ UNCHANGED <<results, writes>>
    /\ UNCHANGED <<cfg, tz, clock, nextId, debugFiles, inVars, readVars>>

\* Time passes on the host: half a day. The clock is read by the calls that
\* write a file only, so it is advanced only when one of them is next.
HalfDayPasses ==
    /\ clock < MaxDay
    /\ \E id \in RequestIds : task[id].pc \in {"save_success", "save_debug", "handler"}
    /\ clock' = clock + 1
    /\ UNCHANGED <<cfg, tz, nextId, task, results, debugFiles, writes, inVars, readVars>>

TaskStep(id) ==
    \/ Assemble(id)
    \/ Attach(id)
    \/ Connect(id)
    \/ StartTls(id)
    \/ Login(id)
    \/ Sendmail(id)
    \/ Quit(id)
    \/ SaveSuccess(id)
    \/ SaveDebug(id)
    \/ Handler(id)

\* no dispatch is on its way (the dispatches of one sender run one after the
\* other here; SpecPair has them at the same time)
Idle == \A id \in RequestIds : task[id].pc \in {"none", "done", "crashed"}

NextOut ==
    \/ /\ nextId <= MaxRequests
       /\ Idle
       /\ \E debug \in BOOLEAN, files \in AttachmentLists, up \in 0..2 :
              SendEmail(debug, files, up)
    \/ \E id \in RequestIds : TaskStep(id)
    \/ HalfDayPasses

----------------------------------------------------------------------------
(* THE INBOUND SIDE: src/src/app/email_receiver.py *)

MaxMsgs == 2
MaxFaults == 2
MaxCycles == 3
MaxSaves == 2

SleepNormal == 30
SleepError == 60

MaxClock == MaxCycles * SleepNormal

MsgIds == 1..MaxMsgs
\* The poll loops: r1 is the one start_email_receiver starts; r2 is a second
\* loop on the same MailDev and bucket, which runs only in SpecPoll.
Receivers == {"r1", "r2"}

\* What MailDev returns for /api/mail/{id}: message 1 carries two attachments,
\* the second of them a file called email.json; the other messages none.
Attachments(m) ==
    IF m = 1
    THEN << [id |-> 1, filename |-> "a.pdf"], [id |-> 2, filename |-> "email.json"] >>
    ELSE << >>

\* Text is a sequence of characters. Message 1 is "Hi" from B <a> to C <c>
\* with the text "ok"; message 2 has no subject and no text, and the HTML
\* body "OK".
FullEmail(m) ==
    [attachments |-> Attachments(m), time |-> 0,
     from |-> [address |-> <<"a">>, name |-> IF m = 1 THEN <<"B">> ELSE << >>],
     to |-> << [address |-> <<"c">>, name |-> IF m = 1 THEN <<"C">> ELSE << >>] >>,
     subject |-> IF m = 1 THEN <<"H", "i">> ELSE << >>,
     text |-> IF m = 1 THEN <<"o", "k">> ELSE << >>,
     html |-> IF m = 1 THEN << >> ELSE <<"O", "K">>]

Range(f) == {f[i] : i \in DOMAIN f}

Max(a, b) == IF a >= b THEN a ELSE b

----------------------------------------------------------------------------
(* Object names and the bucket *)

NoStamp == 0 - 1

\* f"{timestamp}_{email_id}_email.json", the timestamp to the second
ObjectNameById(timestamp, email_id) ==
    [stamp |-> 0, id |-> email_id, att |-> 0, file |-> "email.json"]

ObjectNameUnique(timestamp, email_id) ==
    [stamp |-> timestamp, id |-> email_id, att |-> Cardinality(DOMAIN store) + 1,
     file |-> "email.json"]

ObjectName(timestamp, email_id) ==
    [stamp |-> timestamp, id |-> email_id, att |-> 0, file |-> "email.json"]

\* f"{email_id}_{attachment['id']}_{attachment['filename']}"
AttachmentName(email_id, att) ==
    [stamp |-> NoStamp, id |-> email_id, att |-> att.id, file |-> att.filename]

\* minio put_object: creates the object or replaces its content
PutObject(st, name, content) ==
    [k \in DOMAIN st \cup {name} |-> IF k = name THEN content ELSE st[k]]

\* lines 139-149: the record process_received_email builds
ProcessedEmail(m, full, t) ==
    [json |-> TRUE, id |-> m, from |-> full.from, to |-> full.to,
     subject |-> full.subject, text |-> full.text, html |-> full.html,
     attachments |-> full.attachments,
     received_at |-> full.time, processed_at |-> t]

\* The bytes of the attachment called email.json: a JSON document, the export
\* of a message of another mailbox.
ExportedEmail ==
    [json |-> TRUE, id |-> 0,
     from |-> [address |-> <<"z">>, name |-> << >>],
     to |-> << >>,
     subject |-> <<"F", "w", "d">>, text |-> << >>, html |-> << >>,
     attachments |-> << >>, received_at |-> 0, processed_at |-> 0]

\* what download_attachment returns: the bytes MailDev holds for the
\* attachment, JSON for email.json and not JSON for the others
AttachmentContent(m, att) ==
    IF att.filename = "email.json" THEN ExportedEmail
    ELSE [json |-> FALSE, id |-> m, att |-> att.id]

\* save_received_email: the put, or nothing when the put fails (the except
\* clause logs and returns)
SaveReceivedEmail(st, email, t, putOk) ==
    IF putOk THEN PutObject(st, ObjectName(t, email.id), email) ELSE st

\* process_attachments: each attachment is downloaded and put; a failure of
\* either is logged and the loop goes on with the next attachment.
RECURSIVE ProcessAttachments(_, _, _, _)
ProcessAttachments(st, m, atts, outcome) ==
    IF atts = << >> THEN st
    ELSE LET st1 == IF Head(outcome) = "ok"
                    THEN PutObject(st, AttachmentName(m, Head(atts)),
                                   AttachmentContent(m, Head(atts)))
                    ELSE st
         IN ProcessAttachments(st1, m, Tail(atts), Tail(outcome))

AttOutcomes == {"ok", "download_failed", "put_failed"}

EmailObjects(m) == {k \in DOMAIN store : store[k].json /\ store[k].id = m}

Persisted(m) == EmailObjects(m) # {}

----------------------------------------------------------------------------
(* The read side: get_received_emails *)

\* list_objects returns the names in lexicographic order: the timestamped
\* records by (timestamp, id), the attachment objects by (id, attachment id).
NameBefore(a, b) ==
    IF a.stamp # NoStamp /\ b.stamp = NoStamp THEN TRUE
    ELSE IF a.stamp = NoStamp /\ b.stamp # NoStamp THEN FALSE
    ELSE IF a.stamp # b.stamp THEN a.stamp < b.stamp
    ELSE IF a.id # b.id THEN a.id < b.id
    ELSE a.att < b.att

RECURSIVE SortNames(_)
SortNames(S) ==
    IF S = {} THEN << >>
    ELSE LET first == CHOOSE a \in S : \A b \in S \ {a} : NameBefore(a, b)
         IN <<first>> \o SortNames(S \ {first})

ListObjects(st) == SortNames(DOMAIN st)

\* a variant whose slice holds the element at offset + limit as well
SliceInclusive(seq, offset, limit) ==
    SubSeq(seq, offset + 1,
           IF offset + limit + 1 < Len(seq) THEN offset + limit + 1 ELSE Len(seq))

\* objects[offset:offset + limit]
Slice(seq, offset, limit) ==
    SubSeq(seq, offset + 1, IF offset + limit < Len(seq) THEN offset + limit ELSE Len(seq))

\* lines 236-255: every object of the slice that parses as JSON
GetReceivedEmails(st, limit, offset) ==
    LET page == Slice(ListObjects(st), offset, limit)
        RECURSIVE Read(_)
        Read(names) ==
            IF names = << >> THEN << >>
            ELSE IF st[Head(names)].json
                 THEN <<st[Head(names)]>> \o Read(Tail(names))
                 ELSE Read(Tail(names))
    IN Read(page)

DefaultLimit == 50

----------------------------------------------------------------------------
(* The read side: search_received_emails *)

\* limit=1000 of line 260, scaled to the buckets this model reaches: the
\* number of objects one search reads.
SearchLimit == 3

\* str.lower()
Lower(c) ==
    CASE c = "A" -> "a"
      [] c = "B" -> "b"
      [] c = "C" -> "c"
      [] c = "D" -> "d"
      [] c = "E" -> "e"
      [] c = "F" -> "f"
      [] c = "G" -> "g"
      [] c = "H" -> "h"
      [] c = "I" -> "i"
      [] c = "J" -> "j"
      [] c = "K" -> "k"
      [] c = "L" -> "l"
      [] c = "M" -> "m"
      [] c = "N" -> "n"
      [] c = "O" -> "o"
      [] c = "P" -> "p"
      [] c = "Q" -> "q"
      [] c = "R" -> "r"
      [] c = "S" -> "s"
      [] c = "T" -> "t"
      [] c = "U" -> "u"
      [] c = "V" -> "v"
      [] c = "W" -> "w"
      [] c = "X" -> "x"
      [] c = "Y" -> "y"
      [] c = "Z" -> "z"
      [] c = "Ç" -> "ç"
      [] c = "Ã" -> "ã"
      [] c = "Í" -> "í"
      [] c = "Ê" -> "ê"
      [] c = "Ó" -> "ó"
      [] c = "É" -> "é"
      [] OTHER   -> c

LowerStr(str) == [i \in 1..Len(str) |-> Lower(str[i])]

\* needle in hay
Contains(hay, needle) ==
    \E i \in 0..(Len(hay) - Len(needle)) : SubSeq(hay, i + 1, i + Len(needle)) = needle

\* str(d) of a dict with the keys address and name
StrOfAddress(d) ==
    <<"{", "'", "a", "d", "d", "r", "e", "s", "s", "'", ":", " ", "'">> \o d.address
    \o <<"'", ",", " ", "'", "n", "a", "m", "e", "'", ":", " ", "'">> \o d.name
    \o <<"'", "}">>

\* str(l) of a list of such dicts
RECURSIVE StrOfItems(_)
StrOfItems(l) ==
    IF l = << >> THEN << >>
    ELSE StrOfAddress(Head(l))
         \o (IF Len(l) > 1 THEN <<",", " ">> ELSE << >>) \o StrOfItems(Tail(l))

StrOfList(l) == <<"[">> \o StrOfItems(l) \o <<"]">>

\* lines 267-271: the test a message passes
MatchesQuery(email, query_lower) ==
    \/ Contains(LowerStr(email.subject), query_lower)
    \/ Contains(LowerStr(StrOfAddress(email.from)), query_lower)
    \/ Contains(LowerStr(StrOfList(email.to)), query_lower)
    \/ Contains(LowerStr(email.text), query_lower)
    \/ Contains(LowerStr(email.html), query_lower)

\* lines 257-278
SearchReceivedEmails(st, q) ==
    LET all_emails == GetReceivedEmails(st, SearchLimit, 0)
        query_lower == LowerStr(q)
    IN SelectSeq(all_emails, LAMBDA email : MatchesQuery(email, query_lower))

\* The queries searched for.
Queries == {<< >>, <<"h">>, <<"H", "I">>, <<"o", "k">>, <<"A", "d">>, <<"z">>}

\* a caller of search_received_emails
Search(q) ==
    /\ query' = q
    /\ found' = SearchReceivedEmails(store, q)
    /\ UNCHANGED <<inVars, outVars, request, response>>

----------------------------------------------------------------------------
(* listen_for_emails *)

\* before the first call of the MCP read interface
NoRequest == [op |-> "none"]

NoResponse == [status |-> 0]

NoCycle == [pc |-> "fetch", callback |-> FALSE, batch |-> << >>, idx |-> 1,
            cur |-> "none", sleepFor |-> 0, wakeAt |-> 0, raised |-> FALSE,
            fails |-> {}, processed |-> {}, called |-> << >>]

InitIn ==
    /\ now = 0
    /\ inbox = << >>
    /\ read = {}
    /\ store = << >>
    /\ rcv \in {[r \in Receivers |-> [NoCycle EXCEPT !.callback = cb]] : cb \in BOOLEAN}
    /\ faults = 0
    /\ marked = {}
    /\ listed = {}
    /\ saves = [m \in MsgIds |-> << >>]
    /\ query = << >>
    /\ found = << >>
    /\ request = NoRequest
    /\ response = NoResponse

\* line 78: the cycle ended normally
SleepAfterCycle(st, t) ==
    [st EXCEPT !.pc = "sleep", !.sleepFor = SleepNormal, !.wakeAt = t + SleepNormal]

OnCycleErrorExit(st, t) == [st EXCEPT !.pc = "exited", !.raised = TRUE]

OnCycleErrorShort(st, t) ==
    [st EXCEPT !.pc = "sleep", !.sleepFor = SleepNormal, !.wakeAt = t + SleepNormal,
               !.raised = TRUE]

\* lines 80-82: an exception left the cycle
OnCycleError(st, t) ==
    [st EXCEPT !.pc = "sleep", !.sleepFor = SleepError, !.wakeAt = t + SleepError,
               !.raised = TRUE]

\* the for loop: the next message, or the sleep after the last one
NextMessageStop(st, t) == SleepAfterCycle(st, t)

NextMessage(st, t) ==
    IF st.idx >= Len(st.batch)
    THEN SleepAfterCycle(st, t)
    ELSE [st EXCEPT !.pc = "process", !.idx = @ + 1, !.cur = "none"]

\* a variant without the filter of line 93
UnreadEmailsUnfiltered(ok) == IF ok THEN inbox ELSE << >>

\* lines 93 / 97 / 100: the unread messages, or [] when the request fails
UnreadEmails(ok) ==
    IF ok THEN SelectSeq(inbox, LAMBDA m : m \notin read) ELSE << >>

\* line 62: get_unread_emails
Fetch(r, ok) ==
    /\ rcv[r].pc = "fetch"
    /\ ok \/ faults < MaxFaults
    /\ LET batch == UnreadEmails(ok)
           st == [rcv[r] EXCEPT !.batch = batch, !.idx = 1, !.cur = "none",
                                !.raised = FALSE, !.processed = {},
                                !.called = << >>,
                                !.fails = IF ok THEN {} ELSE {<<"list", 0>>}]
       IN /\ rcv' = [rcv EXCEPT ![r] =
                  IF batch = << >> THEN SleepAfterCycle(st, now)
                  ELSE [st EXCEPT !.pc = "process"]]
          /\ listed' = listed \cup Range(batch)
    /\ faults' = IF ok THEN faults ELSE faults + 1
    /\ UNCHANGED <<now, inbox, read, store, marked, saves, outVars, readVars>>

NumFailed(contentOk, putOk, outcome) ==
    IF ~contentOk THEN 1
    ELSE (IF putOk THEN 0 ELSE 1) + Cardinality({i \in DOMAIN outcome : outcome[i] # "ok"})

\* The failures of one process_received_email call, by kind.
ProcessFails(i, contentOk, putOk, outcome) ==
    IF ~contentOk THEN {<<"content", i>>}
    ELSE (IF putOk THEN {} ELSE {<<"put", i>>})
         \cup (IF \E j \in DOMAIN outcome : outcome[j] = "put_failed"
               THEN {<<"attachment_put", i>>} ELSE {})
         \cup (IF \E j \in DOMAIN outcome : outcome[j] = "download_failed"
               THEN {<<"attachment_download", i>>} ELSE {})

ProcessRaisesOnContent(contentOk, putOk, outcome) == ~contentOk

ProcessRaisesOnStorage(contentOk, putOk, outcome) ==
    contentOk /\ (~putOk \/ \E j \in DOMAIN outcome : outcome[j] = "put_failed")

\* process_received_email, save_received_email and process_attachments each
\* catch Exception: nothing a failed call raises leaves process_received_email.
ProcessRaises(contentOk, putOk, outcome) == FALSE

\* a variant that stores the attachments only when every one of them works
ProcessReceivedEmailAllOrNone(st, m, t, contentOk, putOk, outcome) ==
    IF ~contentOk THEN st
    ELSE LET email == ProcessedEmail(m, FullEmail(m), t)
             st1 == SaveReceivedEmail(st, email, t, putOk)
         IN IF \A j \in DOMAIN outcome : outcome[j] = "ok"
            THEN ProcessAttachments(st1, email.id, email.attachments, outcome)
            ELSE st1

\* The bucket after process_received_email(m) at second t.
ProcessReceivedEmail(st, m, t, contentOk, putOk, outcome) ==
    IF ~contentOk THEN st
    ELSE LET email == ProcessedEmail(m, FullEmail(m), t)
             st1 == SaveReceivedEmail(st, email, t, putOk)
         IN ProcessAttachments(st1, email.id, email.attachments, outcome)

\* a variant that goes on to the mark whether a callback was given or not
AfterProcessMark(st) == "mark"

\* lines 71-72: if callback and callable(callback)
AfterProcess(st) == IF st.callback THEN "callback" ELSE "mark"

\* line 68: process_received_email(email)
Process(r, contentOk, putOk, outcome) ==
    /\ rcv[r].pc = "process"
    /\ LET m == rcv[r].batch[rcv[r].idx]
           n == NumFailed(contentOk, putOk, outcome)
           st == [rcv[r] EXCEPT !.processed = @ \cup {m},
                     !.cur = IF contentOk THEN "ok" ELSE "error",
                     !.fails = @ \cup ProcessFails(rcv[r].idx, contentOk, putOk, outcome)]
       IN /\ outcome \in [1..(IF contentOk THEN Len(Attachments(m)) ELSE 0) -> AttOutcomes]
          /\ (contentOk \/ putOk)   \* without content there is no put to fail
          /\ faults + n <= MaxFaults
          /\ faults' = faults + n
          /\ store' = ProcessReceivedEmail(store, m, now, contentOk, putOk, outcome)
          /\ saves' = IF contentOk /\ putOk
                      THEN [saves EXCEPT ![m] = Append(@, now)] ELSE saves
          /\ rcv' = [rcv EXCEPT ![r] =
                  IF ProcessRaises(contentOk, putOk, outcome)
                  THEN OnCycleError(st, now)
                  ELSE [st EXCEPT !.pc = AfterProcess(st)]]
    /\ UNCHANGED <<now, inbox, read, marked, listed, outVars, readVars>>

\* lines 71-72: await callback(processed_email); an exception it raises is
\* caught by the except clause of the while loop. `called` lists the messages
\* the callback was invoked for in the cycle.
Callback(r, ok) ==
    /\ rcv[r].pc = "callback"
    /\ ok \/ faults < MaxFaults
    /\ faults' = IF ok THEN faults ELSE faults + 1
    /\ LET st == [rcv[r] EXCEPT !.called = Append(@, rcv[r].batch[rcv[r].idx])]
       IN rcv' = [rcv EXCEPT ![r] =
               IF ok THEN [st EXCEPT !.pc = "mark"]
               ELSE OnCycleError([st EXCEPT !.fails = @ \cup {<<"callback", rcv[r].idx>>}],
                                 now)]
    /\ UNCHANGED <<now, inbox, read, store, marked, listed, saves, outVars, readVars>>

\* line 75: mark_email_as_read(email['id']); a failed request is logged
Mark(r, ok) ==
    /\ rcv[r].pc = "mark"
    /\ ok \/ faults < MaxFaults
    /\ faults' = IF ok THEN faults ELSE faults + 1
    /\ LET m == rcv[r].batch[rcv[r].idx]
       IN /\ marked' = marked \cup {m}
          /\ read' = IF ok THEN read \cup {m} ELSE read
          /\ rcv' = [rcv EXCEPT ![r] =
                  NextMessage([@ EXCEPT !.fails =
                      IF ok THEN @ ELSE @ \cup {<<"mark", rcv[r].idx>>}], now)]
    /\ UNCHANGED <<now, inbox, store, listed, saves, outVars, readVars>>

\* asyncio.sleep returns: the next iteration of while True
Wake(r) ==
    /\ rcv[r].pc = "sleep"
    /\ rcv[r].wakeAt <= MaxClock
    /\ now' = Max(now, rcv[r].wakeAt)
    /\ rcv' = [rcv EXCEPT ![r].pc = "fetch"]
    /\ UNCHANGED <<inbox, read, store, faults, marked, listed, saves, outVars, readVars>>

\* a message is delivered to MailDev
Arrive(m) ==
    /\ m \notin Range(inbox)
    /\ inbox' = Append(inbox, m)
    /\ UNCHANGED <<now, read, store, rcv, faults, marked, listed, saves, outVars, readVars>>

ReceiverStep(r) ==
    \/ \E ok \in BOOLEAN : Fetch(r, ok)
    \/ \E contentOk \in BOOLEAN, putOk \in BOOLEAN, outcome \in SeqsOver(AttOutcomes) :
           Process(r, contentOk, putOk, outcome)
    \/ \E ok \in BOOLEAN : Callback(r, ok)
    \/ \E ok \in BOOLEAN : Mark(r, ok)
    \/ Wake(r)

NextIn ==
    \/ \E m \in MsgIds : Arrive(m)
    \/ ReceiverStep("r1")

----------------------------------------------------------------------------
(* process_received_email called directly, at any time *)

MaxTicks == 1

Tick ==
    /\ now < MaxTicks
    /\ now' = now + 1
    /\ UNCHANGED <<inbox, read, store, rcv, faults, marked, listed, saves, outVars, readVars>>

Ingest(m, contentOk, putOk, outcome) ==
    /\ m \in Range(inbox)
    /\ Len(saves[m]) < MaxSaves
    /\ outcome \in [1..(IF contentOk THEN Len(Attachments(m)) ELSE 0) -> AttOutcomes]
    /\ (contentOk \/ putOk)
    /\ faults + NumFailed(contentOk, putOk, outcome) <= MaxFaults
    /\ faults' = faults + NumFailed(contentOk, putOk, outcome)
    /\ store' = ProcessReceivedEmail(store, m, now, contentOk, putOk, outcome)
    /\ saves' = IF contentOk /\ putOk THEN [saves EXCEPT ![m] = Append(@, now)] ELSE saves
    /\ UNCHANGED <<now, inbox, read, rcv, marked, listed, outVars, readVars>>

\* MailDev numbers the messages as they arrive.
ArriveNext ==
    /\ Len(inbox) < MaxMsgs
    /\ Arrive(Len(inbox) + 1)

NextIngest ==
    \/ ArriveNext
    \/ Tick
    \/ \E m \in MsgIds, contentOk \in BOOLEAN, putOk \in BOOLEAN,
          outcome \in SeqsOver(AttOutcomes) : Ingest(m, contentOk, putOk, outcome)

----------------------------------------------------------------------------
(* Two poll loops at once, every call working *)

NextPoll ==
    \/ \E m \in MsgIds : Arrive(m)
    \/ Tick
    \/ \E r \in Receivers : Fetch(r, TRUE)
    \/ \E r \in Receivers, outcome \in SeqsOver({"ok"}) : Process(r, TRUE, TRUE, outcome)
    \/ \E r \in Receivers : Mark(r, TRUE)
    \/ \E r \in Receivers : Wake(r)

----------------------------------------------------------------------------
(* Specifications *)

vars == <<outVars, inVars, readVars>>

InitOutIdle ==
    /\ cfg = [use_ssl |-> FALSE, use_tls |-> FALSE, use_password |-> FALSE]
    /\ tz = 0
    /\ clock = 0
    /\ nextId = 1
    /\ task = [i \in RequestIds |-> NoTask]
    /\ results = << >>
    /\ debugFiles = {}
    /\ writes = [i \in RequestIds |-> 0]

InitInIdle ==
    /\ now = 0
    /\ inbox = << >>
    /\ read = {}
    /\ store = << >>
    /\ rcv = [r \in Receivers |-> NoCycle]
    /\ faults = 0
    /\ marked = {}
    /\ listed = {}
    /\ saves = [m \in MsgIds |-> << >>]
    /\ query = << >>
    /\ found = << >>
    /\ request = NoRequest
    /\ response = NoResponse

\* the sender alone
InitSend == InitOut /\ InitInIdle

SpecSend == InitSend /\ [][NextOut]_vars

\* the receiver alone
InitRecv == InitOutIdle /\ InitIn

SpecRecv == InitRecv /\ [][NextIn]_vars

\* the assembly of the message alone, for requests with any file names
NextAssemble ==
    \/ /\ nextId <= MaxRequests
       /\ \E files \in SeqsOver(Filenames), up \in 0..2 : SendEmail(FALSE, files, up)
    \/ \E id \in RequestIds : Assemble(id)
    \/ \E id \in RequestIds : Attach(id)

InitAssemble == InitOutIdle /\ InitInIdle

SpecAssemble == InitAssemble /\ [][NextAssemble]_vars

\* several dispatch units in flight at once (BackgroundTasks runs each
\* send_email_task in a worker thread), against a server that wants STARTTLS
\* and a login
NextPair ==
    \/ /\ nextId <= MaxConcurrent
       /\ \E debug \in BOOLEAN : SendEmail(debug, << >>, 0)
    \/ \E id \in RequestIds : TaskStep(id)

InitPair ==
    /\ cfg = [use_ssl |-> FALSE, use_tls |-> TRUE, use_password |-> TRUE]
    /\ tz = 0
    /\ clock = 0
    /\ nextId = 1
    /\ task = [i \in RequestIds |-> NoTask]
    /\ results = << >>
    /\ debugFiles = {}
    /\ writes = [i \in RequestIds |-> 0]
    /\ InitInIdle

SpecPair == InitPair /\ [][NextPair]_vars

\* two receivers polling the same source into the same bucket
InitPoll == InitOutIdle /\ InitInIdle

SpecPoll == InitPoll /\ [][NextPoll]_vars

\* searches over a bucket filled by process_received_email
NextSearch ==
    \/ ArriveNext
    \/ Tick
    \/ \E m \in MsgIds, contentOk \in BOOLEAN, putOk \in BOOLEAN,
          outcome \in SeqsOver(AttOutcomes) : Ingest(m, contentOk, putOk, outcome)
    \/ \E q \in Queries : Search(q)

InitSearch == InitOutIdle /\ InitInIdle

SpecSearch == InitSearch /\ [][NextSearch]_vars

\* process_received_email driven by a caller other than the loop
InitIngest == InitOutIdle /\ InitInIdle

SpecIngest == InitIngest /\ [][NextIngest]_vars

----------------------------------------------------------------------------
(* PROPERTIES OF THE SENDER, checked under SpecSend *)

Returned(id) == task[id].pc = "done"

\* C1: once send_email_task has returned for an accepted request, exactly one
\* result file exists for its id over all date and status directories.
C1_ExactlyOneResult ==
    \A id \in RequestIds : Returned(id) => Cardinality(ResultsOf(id)) = 1

\* C2: a result is written once and never again: once a result file exists for
\* an id, no step writes a result for that id or changes the files it has.
C2_WrittenOnce ==
    [][\A id \in RequestIds :
          ResultsOf(id) # {} =>
              /\ writes'[id] = writes[id]
              /\ {p \in DOMAIN results' : p[3] = id} = ResultsOf(id)]_vars

\* The failure classes of the specification and the detail each is recorded with.
Category(cls) ==
    CASE cls = "SMTPAuthenticationError" -> "authentication rejected"
      [] cls = "SMTPConnectError"        -> "connection failed"
      [] cls = "SMTPRecipientsRefused"   -> "recipient rejected"
      [] cls = "SMTPSenderRefused"       -> "sender rejected"
      [] cls = "SMTPDataError"           -> "message data rejected"
      [] OTHER -> IF IsInstance(cls, "SMTPException")
                  THEN "generic protocol failure" ELSE "uncategorized failure"

Categories ==
    {"authentication rejected", "connection failed", "recipient rejected",
     "sender rejected", "message data rejected", "generic protocol failure",
     "uncategorized failure"}

CategoryDetail(cat, text) ==
    CASE cat = "authentication rejected" -> "Authentication failed. Check your username and password."
      [] cat = "connection failed"       -> "Failed to connect to the SMTP server."
      [] cat = "recipient rejected"      -> "Recipient address rejected by the server."
      [] cat = "sender rejected"         -> "Sender address rejected by the server."
      [] cat = "message data rejected"   -> "The SMTP server refused to accept the message data."
      [] cat = "generic protocol failure" -> "An SMTP error occurred: " \o text
      [] OTHER                           -> "An unexpected error occurred: " \o text

Steps == {"attach", "decode", "connect", "starttls", "login", "sendmail", "quit", "save"}

----------------------------------------------------------------------------
(* PROPERTIES OF THE RECEIVER, checked under SpecRecv and SpecIngest *)

\* C3: every message mark_email_as_read was invoked for has a record in the
\* received_emails bucket.
C3_MarkedOnlyAfterPersisted == \A m \in marked : Persisted(m)

\* C4: no message is lost: a message the source listed as unread and now holds
\* as read (it is never listed again) has a record in the bucket.
C4_NoSilentLoss == \A m \in listed : m \in read => Persisted(m)

RecordsShown(m) ==
    LET shown == GetReceivedEmails(store, DefaultLimit, 0)
    IN Cardinality({i \in DOMAIN shown : shown[i].id = m})

\* C5 as stated: the bucket holds at most one record per source id, and
\* get_received_emails shows at most one.
C5_AtMostOncePerId ==
    \A m \in MsgIds : Cardinality(EmailObjects(m)) <= 1 /\ RecordsShown(m) <= 1

\* C5 as amended: the bucket holds one record per source id and second of a
\* successful save, and get_received_emails shows each of them.
C5_OncePerSave ==
    \A m \in MsgIds :
        /\ Cardinality(EmailObjects(m)) = Cardinality(Range(saves[m]))
        /\ RecordsShown(m) = Cardinality(Range(saves[m]))

C5_Witness ==
    \E m \in MsgIds : Len(saves[m]) >= 2 /\ Cardinality(EmailObjects(m)) = Len(saves[m])

CycleOver(r) == rcv[r].pc = "sleep"

FailedWith(r, kinds) == \E f \in rcv[r].fails : f[1] \in kinds

\* C7 as stated: whatever fails while a message is handled, every message of
\* the batch has been processed when the cycle is over.
C7_IsolatedAlways ==
    \A r \in Receivers : CycleOver(r) => Range(rcv[r].batch) \subseteq rcv[r].processed

\* C7 as amended: unless the callback raised, every message of the batch has
\* been processed when the cycle is over; when the callback raised for the
\* i-th message, the cycle ended there.
C7_IsolatedUnlessCallback ==
    \A r \in Receivers :
        CycleOver(r) =>
            IF FailedWith(r, {"callback"})
            THEN /\ rcv[r].processed = {rcv[r].batch[i] : i \in 1..rcv[r].idx}
                 /\ <<"callback", rcv[r].idx>> \in rcv[r].fails
            ELSE Range(rcv[r].batch) \subseteq rcv[r].processed

C7_Witness ==
    \E r \in Receivers :
        /\ CycleOver(r)
        /\ Len(rcv[r].batch) = 2
        /\ \E f \in rcv[r].fails : f[2] = 1 /\ f[1] # "callback"
        /\ Range(rcv[r].batch) \subseteq rcv[r].processed

\* C8: the loop never exits; a cycle that ended normally sleeps 30 and one
\* that raised sleeps 60; the sleep can end (within the horizon of the model)
\* and what follows it is the next fetch, not before the interval has passed.
C8_LoopNeverExits ==
    /\ [](\A r \in Receivers :
            /\ rcv[r].pc \in {"fetch", "process", "callback", "mark", "sleep"}
            /\ CycleOver(r) =>
                  /\ rcv[r].sleepFor = IF rcv[r].raised THEN SleepError ELSE SleepNormal
                  /\ rcv[r].wakeAt = now + rcv[r].sleepFor
                  /\ rcv[r].wakeAt <= MaxClock => ENABLED Wake(r))
    /\ [][\A r \in Receivers :
            (CycleOver(r) /\ rcv'[r].pc # "sleep") =>
                rcv'[r].pc = "fetch" /\ now' >= now + rcv[r].sleepFor]_vars

C8_Witness ==
    \E r \in Receivers : rcv[r].pc = "fetch" /\ rcv[r].raised /\ now >= SleepError

StorageKinds == {"put", "attachment_put"}

\* C9 as stated: a cycle in which a put failed sleeps the backoff interval.
C9_StorageFailureBacksOff ==
    \A r \in Receivers :
        (CycleOver(r) /\ FailedWith(r, StorageKinds)) => rcv[r].sleepFor = SleepError

\* C9 as amended: a failed put neither ends the loop nor the cycle nor causes
\* the backoff: the cycle sleeps 60 exactly when the callback raised, and a
\* cycle with a failed put and no raising callback processes its whole batch
\* and sleeps 30.
C9_StorageFailureSwallowed ==
    \A r \in Receivers :
        /\ rcv[r].pc # "exited"
        /\ CycleOver(r) =>
              /\ (rcv[r].sleepFor = SleepError) <=> FailedWith(r, {"callback"})
              /\ (FailedWith(r, StorageKinds) /\ ~FailedWith(r, {"callback"})) =>
                     /\ rcv[r].sleepFor = SleepNormal
                     /\ Range(rcv[r].batch) \subseteq rcv[r].processed

C9_Witness ==
    \E r \in Receivers :
        /\ CycleOver(r)
        /\ FailedWith(r, StorageKinds)
        /\ rcv[r].sleepFor = SleepNormal

----------------------------------------------------------------------------
(* MORE PROPERTIES OF THE SENDER *)

Count(seq, x) == Len(SelectSeq(seq, LAMBDA y : y = x))

HasFailureResult(id) == \E p \in ResultsOf(id) : results[p].status = "failure"

\* C11: a dispatch is one attempt: the task connects at most once and calls
\* sendmail at most once, and once its exception has reached the except
\* clauses (or a failure result exists) it takes no further SMTP step.
C11_SingleAttempt ==
    /\ [](\A id \in RequestIds :
            /\ Count(task[id].smtp, "connect") <= 1
            /\ Count(task[id].smtp, "sendmail") <= 1)
    /\ [][\A id \in RequestIds :
            (task[id].pc \in {"handler", "done", "crashed"} \/ HasFailureResult(id)) =>
                task'[id].smtp = task[id].smtp]_vars

C11_Witness ==
    \E id \in RequestIds :
        /\ Returned(id)
        /\ HasFailureResult(id)
        /\ task[id].exc = "SMTPSenderRefused"
        /\ Count(task[id].smtp, "connect") = 1
        /\ Count(task[id].smtp, "sendmail") = 1

\* C12: every request send_email received was answered with a message id
\* (no request ended with an exception raised to the caller), and a failure of
\* the dispatch shows only as a result file.
C12_AlwaysReturnsId ==
    \A id \in RequestIds :
        id < nextId =>
            /\ task[id].pc # "rejected"
            /\ task[id].pc = "done" /\ task[id].exc # "none" => HasFailureResult(id)

PartOf(object_name, parts) == \E j \in 2..Len(parts) : parts[j].source = object_name

\* C13: when get_object failed for an attachment, the task that returned left
\* a failure result and no success result and took no SMTP step; and whenever
\* sendmail went through, the message carried a part for every reference.
C13_MissingAttachmentFails ==
    \A id \in RequestIds :
        /\ task[id].exc = "S3Error" =>
              /\ task[id].smtp = << >>
              /\ ~task[id].sent
              /\ Returned(id) =>
                    /\ ResultsOf(id) # {}
                    /\ \A p \in ResultsOf(id) :
                          /\ results[p].status = "failure"
                          /\ results[p].detail = "An unexpected error occurred: attach"
        /\ task[id].sent =>
              /\ Len(task[id].parts) = Len(task[id].atts) + 1
              /\ \A j \in 1..Len(task[id].atts) : PartOf(task[id].atts[j], task[id].parts)

C13_Witness ==
    \E id \in RequestIds :
        /\ Returned(id)
        /\ task[id].exc = "S3Error"
        /\ Len(task[id].atts) = 2
        /\ Len(task[id].parts) = 2
        /\ HasFailureResult(id)

Assembled(id) ==
    /\ task[id].pc \notin {"none", "rejected", "assemble", "attach"}
    /\ task[id].text \notin {"attach", "decode"}

\* C14: the assembled message of a request with n references has n + 1 parts:
\* the text body, then the part of each reference in the order of the
\* references.
C14_PartsInOrder ==
    \A id \in RequestIds :
        Assembled(id) =>
            /\ Len(task[id].parts) = Len(task[id].atts) + 1
            /\ task[id].parts[1] = BodyPart
            /\ \A j \in 1..Len(task[id].atts) :
                   /\ task[id].parts[j + 1].source = task[id].atts[j]
                   /\ task[id].parts[j + 1].filename = task[id].atts[j][3]

C14_Witness ==
    \E id \in RequestIds :
        /\ Assembled(id)
        /\ Len(task[id].atts) = 2
        /\ task[id].atts[1][3] = "e.pdf" /\ task[id].atts[2][3] = "a.txt"
        /\ task[id].parts[2].filename = "e.pdf" /\ task[id].parts[3].filename = "a.txt"

\* C15: each attachment part has the type its file name decides: application/
\* octet-stream in base64 when the type is unknown or comes with a content
\* encoding; the guessed text, image or audio type as a part of that class;
\* every other guessed type as itself in base64.
C15_EncodingByType ==
    \A id \in RequestIds :
        \A j \in 2..Len(task[id].parts) :
            LET part == task[id].parts[j]
                g == GuessType(part.filename)
            IN IF g.ctype[1] = "none" \/ g.encoding # "none"
               THEN /\ <<part.maintype, part.subtype>> = <<"application", "octet-stream">>
                    /\ part.class = "MIMEBase" /\ part.cte = "base64"
               ELSE /\ <<part.maintype, part.subtype>> = g.ctype
                    /\ CASE g.ctype[1] = "text"  -> part.class = "MIMEText"
                         [] g.ctype[1] = "image" -> part.class = "MIMEImage"
                         [] g.ctype[1] = "audio" -> part.class = "MIMEAudio"
                         [] OTHER -> part.class = "MIMEBase" /\ part.cte = "base64"

C15_Witness ==
    \E id \in RequestIds :
        /\ Len(task[id].parts) = 3
        /\ task[id].parts[2].filename = "h.txt.gz"
        /\ task[id].parts[2].subtype = "octet-stream"
        /\ task[id].parts[3].filename = "c.png"
        /\ task[id].parts[3].class = "MIMEImage"

HasSuccessResult(id) == \E p \in ResultsOf(id) : results[p].status = "success"

HasDebugCopy(id) == \E f \in debugFiles : f[2] = id

\* C16: once the task has returned, a raw copy of the message exists for its
\* id exactly when the delivery succeeded (sendmail went through and the
\* success result was written) and the request had the debug flag set.
C16_DebugCopyIffSuccess ==
    \A id \in RequestIds :
        Returned(id) =>
            (HasDebugCopy(id) <=> (task[id].sent /\ HasSuccessResult(id) /\ task[id].debug))

\* The UTC calendar date of a naive local timestamp of a host at `offset`.
UtcDateOf(timestamp, offset) == (timestamp - offset) \div 2

\* C17: every result file lies in the directory of its own status field and of
\* the UTC calendar date of its own timestamp field.
C17_PartitionMatchesResult ==
    \A p \in DOMAIN results :
        /\ p[2] = results[p].status
        /\ p[3] = results[p].email_id
        /\ p[1] = UtcDateOf(results[p].timestamp, tz)

\* What the SMTP attempt of a task came to.
Outcome(id) == IF task[id].sent /\ task[id].exc = "none" THEN "success" ELSE "failure"

\* C18: when two dispatch units with distinct ids have both returned, each id
\* has exactly one result, of the outcome of its own attempt.
C18_NoInterference ==
    \A a \in RequestIds, b \in RequestIds :
        (a # b /\ Returned(a) /\ Returned(b)) =>
            /\ Cardinality(ResultsOf(a)) = 1
            /\ \A p \in ResultsOf(a) : results[p].status = Outcome(a)

----------------------------------------------------------------------------
(* MORE PROPERTIES OF THE RECEIVER *)

\* C19: with two poll loops on the same source and bucket, every message the
\* source holds as read has a record, and no source id has more than one
\* record.
C19_ConcurrentPollsSafe ==
    /\ \A m \in listed : m \in read => Persisted(m)
    /\ \A m \in MsgIds : Cardinality(EmailObjects(m)) <= 1

\* the objects save_received_email wrote: their names start with a timestamp
Records(st) == {k \in DOMAIN st : k.stamp # NoStamp}

\* What the specification counts as a match: the lower-cased query is part of
\* the lower-cased subject, sender, recipients, text or HTML body.
IsMatch(email, q) ==
    \E field \in {email.subject, StrOfAddress(email.from), StrOfList(email.to),
                  email.text, email.html} :
        Contains(LowerStr(field), LowerStr(q))

\* C20: a search returns a record of the bucket if and only if the record
\* matches the query, for every record the bucket holds.
C20_SearchFindsExactlyMatches ==
    [][\A q \in Queries :
          Search(q) =>
              \A k \in Records(store) :
                  (\E i \in DOMAIN found' : found'[i] = store[k]) <=> IsMatch(store[k], q)]_vars

----------------------------------------------------------------------------
(* THE MCP READ INTERFACE: src/src/app/mcp_server.py *)

\* text_content[:200], line 108
PreviewLen == 200

high_priority_keywords ==
    <<<<"u", "r", "g", "e", "n", "t", "e">>,
    <<"u", "r", "g", "e", "n", "t">>,
    <<"c", "r", "í", "t", "i", "c", "o">>,
    <<"c", "r", "i", "t", "i", "c", "a", "l">>,
    <<"e", "m", "e", "r", "g", "ê", "n", "c", "i", "a">>,
    <<"e", "m", "e", "r", "g", "e", "n", "c", "y">>,
    <<"i", "m", "e", "d", "i", "a", "t", "o">>,
    <<"i", "m", "m", "e", "d", "i", "a", "t", "e">>>>

medium_priority_keywords ==
    <<<<"i", "m", "p", "o", "r", "t", "a", "n", "t", "e">>,
    <<"i", "m", "p", "o", "r", "t", "a", "n", "t">>,
    <<"a", "t", "e", "n", "ç", "ã", "o">>,
    <<"a", "t", "t", "e", "n", "t", "i", "o", "n">>,
    <<"r", "e", "v", "i", "s", "a", "r">>,
    <<"r", "e", "v", "i", "e", "w">>>>

\* any(word in str for word in words)
AnyIn(words, str) == \E i \in DOMAIN words : Contains(str, words[i])

\* a variant that compares the text as it was written
EstimatePriorityAsWritten(email_data) ==
    IF AnyIn(high_priority_keywords, email_data.subject)
       \/ AnyIn(high_priority_keywords, email_data.text)
    THEN "high"
    ELSE IF AnyIn(medium_priority_keywords, email_data.subject)
            \/ AnyIn(medium_priority_keywords, email_data.text)
         THEN "medium"
         ELSE "normal"

\* _estimate_priority, lines 132-148
EstimatePriority(email_data) ==
    LET subject_lower == LowerStr(email_data.subject)
        text_lower == LowerStr(email_data.text)
    IN IF \E i \in DOMAIN high_priority_keywords :
              \/ Contains(subject_lower, high_priority_keywords[i])
              \/ Contains(text_lower, high_priority_keywords[i])
       THEN "high"
       ELSE IF \E i \in DOMAIN medium_priority_keywords :
                  \/ Contains(subject_lower, medium_priority_keywords[i])
                  \/ Contains(text_lower, medium_priority_keywords[i])
            THEN "medium"
            ELSE "normal"

purchase_words ==
    <<<<"p", "e", "d", "i", "d", "o">>, <<"o", "r", "d", "e", "r">>, <<"c", "o", "m", "p", "r", "a">>, <<"p", "u", "r", "c", "h", "a", "s", "e">>>>

support_words ==
    <<<<"s", "u", "p", "o", "r", "t", "e">>, <<"s", "u", "p", "p", "o", "r", "t">>, <<"a", "j", "u", "d", "a">>, <<"h", "e", "l", "p">>>>

notification_words ==
    <<<<"n", "o", "t", "i", "f", "i", "c", "a", "ç", "ã", "o">>, <<"n", "o", "t", "i", "f", "i", "c", "a", "t", "i", "o", "n">>, <<"a", "l", "e", "r", "t", "a">>, <<"a", "l", "e", "r", "t">>>>

noreply_words ==
    <<<<"n", "o", "r", "e", "p", "l", "y">>, <<"n", "o", "-", "r", "e", "p", "l", "y">>, <<"d", "o", "n", "o", "t", "r", "e", "p", "l", "y">>>>

marketing_words ==
    <<<<"s", "p", "a", "m">>, <<"p", "r", "o", "m", "o", "ç", "ã", "o">>, <<"p", "r", "o", "m", "o", "t", "i", "o", "n">>, <<"m", "a", "r", "k", "e", "t", "i", "n", "g">>>>

\* a variant that looks at the marketing words before the sender
EstimateCategoryMarketingFirst(email_data) ==
    LET subject_lower == LowerStr(email_data.subject)
        from_lower == LowerStr(StrOfAddress(email_data.from))
    IN IF AnyIn(purchase_words, subject_lower) THEN "purchase"
       ELSE IF AnyIn(support_words, subject_lower) THEN "support"
       ELSE IF AnyIn(notification_words, subject_lower) THEN "notification"
       ELSE IF AnyIn(marketing_words, subject_lower) THEN "marketing"
       ELSE IF AnyIn(noreply_words, from_lower) THEN "notification"
       ELSE "general"

\* _estimate_category, lines 150-167
EstimateCategory(email_data) ==
    LET subject_lower == LowerStr(email_data.subject)
        from_lower == LowerStr(StrOfAddress(email_data.from))
    IN IF AnyIn(purchase_words, subject_lower) THEN "purchase"
       ELSE IF AnyIn(support_words, subject_lower) THEN "support"
       ELSE IF AnyIn(notification_words, subject_lower) THEN "notification"
       ELSE IF AnyIn(noreply_words, from_lower) THEN "notification"
       ELSE IF AnyIn(marketing_words, subject_lower) THEN "marketing"
       ELSE "general"

\* the addresses of the recipients, lines 97-103
ToAddresses(to_info) == [i \in DOMAIN to_info |-> to_info[i].address]

\* a variant that cuts the text alone and returns the HTML whole
ContentPreviewHtmlWhole(email_data) ==
    IF email_data.text # << >> THEN Slice(email_data.text, 0, PreviewLen)
    ELSE IF email_data.html # << >> THEN email_data.html
    ELSE <<"S", "e", "m", " ", "c", "o", "n", "t", "e", "ú", "d", "o">>

\* line 108: the text, else the HTML, else a fixed phrase
ContentPreview(email_data) ==
    IF email_data.text # << >> THEN Slice(email_data.text, 0, PreviewLen)
    ELSE IF email_data.html # << >> THEN Slice(email_data.html, 0, PreviewLen)
    ELSE <<"S", "e", "m", " ", "c", "o", "n", "t", "e", "ú", "d", "o">>

\* normalize_email_for_llm, lines 87-130: the MCPEmailSummary of a record
NormalizeEmailForLlm(email_data) ==
    [id |-> email_data.id,
     subject |-> email_data.subject,
     from_address |-> email_data.from.address,
     from_name |-> email_data.from.name,
     to_addresses |-> ToAddresses(email_data.to),
     received_at |-> email_data.received_at,
     has_attachments |-> Len(email_data.attachments) > 0,
     content_preview |-> ContentPreview(email_data),
     priority |-> EstimatePriority(email_data),
     category |-> EstimateCategory(email_data)]

positive_words ==
    <<<<"o", "b", "r", "i", "g", "a", "d", "o">>, <<"t", "h", "a", "n", "k", "s">>, <<"e", "x", "c", "e", "l", "e", "n", "t", "e">>, <<"e", "x", "c", "e", "l", "l", "e", "n", "t">>, <<"ó", "t", "i", "m", "o">>, <<"g", "r", "e", "a", "t">>, <<"b", "o", "m">>, <<"g", "o", "o", "d">>>>

negative_words ==
    <<<<"p", "r", "o", "b", "l", "e", "m", "a">>, <<"p", "r", "o", "b", "l", "e", "m">>, <<"e", "r", "r", "o">>, <<"e", "r", "r", "o", "r">>, <<"r", "u", "i", "m">>, <<"b", "a", "d">>, <<"p", "é", "s", "s", "i", "m", "o">>, <<"t", "e", "r", "r", "i", "b", "l", "e">>>>

\* sum(1 for word in words if word in text or word in subject)
CountWords(words, text_lower, subject_lower) ==
    Cardinality({i \in DOMAIN words :
                    Contains(text_lower, words[i]) \/ Contains(subject_lower, words[i])})

\* a variant that calls a tie positive
EstimateSentimentTiePositive(email_data) ==
    LET text_lower == LowerStr(email_data.text)
        subject_lower == LowerStr(email_data.subject)
        positive_count == CountWords(positive_words, text_lower, subject_lower)
        negative_count == CountWords(negative_words, text_lower, subject_lower)
    IN IF positive_count >= negative_count THEN "positive"
       ELSE "negative"

\* _estimate_sentiment, lines 242-258
EstimateSentiment(email_data) ==
    LET text_lower == LowerStr(email_data.text)
        subject_lower == LowerStr(email_data.subject)
        positive_count == CountWords(positive_words, text_lower, subject_lower)
        negative_count == CountWords(negative_words, text_lower, subject_lower)
    IN IF positive_count > negative_count THEN "positive"
       ELSE IF negative_count > positive_count THEN "negative"
       ELSE "neutral"

\* the sample email of test_email_normalization, test_mcp_server.py 146-155
SampleSubject ==
    <<"U", "R", "G", "E", "N", "T", "E", ":", " ", "P", "r", "o", "b", "l", "e", "m", "a", " ", "c", "r", "í", "t", "i", "c", "o", " ", "n", "o", " ", "s", "i", "s", "t", "e", "m", "a">>

SampleText ==
    <<"P", "r", "e", "c", "i", "s", "a", "m", "o", "s", " ", "r", "e", "s", "o", "l", "v", "e", "r", " ", "e", "s", "t", "e", " ", "p", "r", "o", "b", "l", "e", "m", "a", " ", "i", "m", "e", "d", "i", "a", "t", "a", "m", "e", "n", "t", "e", ".", " ", "É", " ", "c", "r", "í", "t", "i", "c", "o", " ", "p", "a", "r", "a", " ", "o", " ", "n", "e", "g", "ó", "c", "i", "o", ".">>

SampleSender ==
    [address |-> <<"a", "d", "m", "i", "n", "@", "c", "o", "m", "p", "a", "n", "y", ".", "c", "o", "m">>, name |-> <<"A", "d", "m", "i", "n">>]

\* The messages normalized: every subject with every text and every sender.
Subjects ==
    {<<>>,
    <<"U", "R", "G", "E", "N", "T">>,
    <<"U", "r", "g", "e", "n", "t", " ", "o", "r", "d", "e", "r">>,
    <<"i", "m", "p", "o", "r", "t", "a", "n", "t">>,
    <<"c", "r", "i", "t", "i", "c", "a", "l">>,
    <<"r", "e", "v", "i", "e", "w">>,
    <<"o", "r", "d", "e", "r", " ", "h", "e", "l", "p">>,
    <<"h", "e", "l", "p", " ", "a", "l", "e", "r", "t">>,
    <<"a", "l", "e", "r", "t", " ", "s", "p", "a", "m">>,
    <<"s", "p", "a", "m">>,
    <<"H", "i">>,
    <<"P", "r", "o", "m", "o", "t", "i", "o", "n">>,
    <<"T", "h", "a", "n", "k", "s">>,
    SampleSubject}

\* a text and an HTML body of one character more than a preview holds
LongText == [i \in 1..(PreviewLen + 1) |-> IF i = 1 THEN "T" ELSE "x"]

LongHtml == [i \in 1..(PreviewLen + 1) |-> IF i = 1 THEN "<" ELSE "y"]

Texts ==
    {<<>>,
    <<"u", "r", "g", "e", "n", "t">>,
    <<"I", "M", "P", "O", "R", "T", "A", "N", "T">>,
    <<"o", "k">>,
    <<"C", "r", "i", "t", "i", "c", "a", "l", " ", "i", "m", "p", "o", "r", "t", "a", "n", "t">>,
    <<"G", "r", "e", "a", "t", ",", " ", "b", "u", "t", " ", "a", "n", " ", "e", "r", "r", "o", "r">>,
    <<"B", "o", "m", " ", "d", "i", "a">>,
    SampleText,
    LongText}

\* the HTML bodies: none, a short one, one longer than a preview
Htmls == {<<>>, <<"O", "K">>, LongHtml}

Senders ==
    {[address |-> <<"a">>, name |-> <<"B">>],
     [address |-> <<"n", "o", "r", "e", "p", "l", "y", "@", "x">>, name |-> << >>],
     [address |-> <<"a">>, name |-> <<"N", "o", "-", "R", "e", "p", "l", "y">>],
     SampleSender}

\* what MailDev returns for a message with this subject, text, sender and HTML
Payload(subject, text, sender, html) ==
    [attachments |-> << >>, time |-> 0, from |-> sender,
     to |-> << [address |-> <<"c">>, name |-> << >>] >>,
     subject |-> subject, text |-> text, html |-> html]

EmailData(subject, text, sender, html) ==
    ProcessedEmail(1, Payload(subject, text, sender, html), 0)

\* a caller of normalize_email_for_llm
Normalize(subject, text, sender, html) ==
    /\ request' = [op |-> "normalize", email_data |-> EmailData(subject, text, sender, html)]
    /\ response' = NormalizeEmailForLlm(EmailData(subject, text, sender, html))
    /\ UNCHANGED <<inVars, outVars, query, found>>

\* a caller of _estimate_sentiment, as get_email_context at line 209
Sentiment(subject, text, sender, html) ==
    /\ request' = [op |-> "sentiment", email_data |-> EmailData(subject, text, sender, html)]
    /\ response' = [sentiment |-> EstimateSentiment(EmailData(subject, text, sender, html))]
    /\ UNCHANGED <<inVars, outVars, query, found>>

\* One call is looked at: the functions keep nothing between two calls.
NextClassify ==
    /\ request = NoRequest
    /\ \E subject \in Subjects, text \in Texts, sender \in Senders, html \in Htmls :
           \/ Normalize(subject, text, sender, html)
           \/ Sentiment(subject, text, sender, html)

InitClassify == InitOutIdle /\ InitInIdle

SpecClassify == InitClassify /\ [][NextClassify]_vars

----------------------------------------------------------------------------
(* PROPERTIES OF THE CLASSIFICATION, checked under SpecClassify *)

\* the word occurs in the subject or in the text, in any letter case
Mentions(email_data, word) ==
    \/ Contains(LowerStr(email_data.subject), word)
    \/ Contains(LowerStr(email_data.text), word)

MentionsAny(email_data, words) ==
    \E i \in DOMAIN words : Mentions(email_data, words[i])

Normalized == request.op = "normalize"

\* C21 as stated: "urgent" in any letter case gives high, "important" without
\* "urgent" gives medium, neither of the two words gives normal.
C21_UrgentAndImportantOnly ==
    Normalized =>
        LET e == request.email_data
            urgent == Mentions(e, <<"u", "r", "g", "e", "n", "t">>)
            important == Mentions(e, <<"i", "m", "p", "o", "r", "t", "a", "n", "t">>)
        IN /\ urgent => response.priority = "high"
           /\ (important /\ ~urgent) => response.priority = "medium"
           /\ (~important /\ ~urgent) => response.priority = "normal"

\* C21: a message whose subject or text holds a word of the high list
\* ("urgent" among them) in any letter case is high; one that holds a word of
\* the medium list ("important" among them) and none of the high list is
\* medium; one that holds no word of either list is normal.
C21_PriorityByKeywordLists ==
    Normalized =>
        LET e == request.email_data
            high == MentionsAny(e, high_priority_keywords)
            medium == MentionsAny(e, medium_priority_keywords)
        IN /\ Mentions(e, <<"u", "r", "g", "e", "n", "t">>) => response.priority = "high"
           /\ high => response.priority = "high"
           /\ (medium /\ ~high) => response.priority = "medium"
           /\ (~medium /\ ~high) => response.priority = "normal"

\* "URGENT" in capitals in the subject alone, classified high
C21_Witness ==
    /\ Normalized
    /\ request.email_data.subject = <<"U", "R", "G", "E", "N", "T">>
    /\ request.email_data.text = << >>
    /\ response.priority = "high"

\* the labels, in the order of precedence
CategoryLabels == <<"purchase", "support", "notification", "marketing", "general">>

\* the message matches the keyword set of the label: for a notification
\* the subject keywords or a no-reply sender, for general nothing is needed
LabelMatches(email_data, label) ==
    LET in_subject(words) ==
            \E i \in DOMAIN words : Contains(LowerStr(email_data.subject), words[i])
        sender == LowerStr(StrOfAddress(email_data.from))
    IN CASE label = "purchase" -> in_subject(purchase_words)
         [] label = "support" -> in_subject(support_words)
         [] label = "notification" ->
                \/ in_subject(notification_words)
                \/ \E i \in DOMAIN noreply_words : Contains(sender, noreply_words[i])
         [] label = "marketing" -> in_subject(marketing_words)
         [] OTHER -> TRUE

----------------------------------------------------------------------------
(* The read side: get_statistics *)

\* obj.size: the length of the content that was put, here the number of
\* characters of a record's texts, and one byte per attachment id
ObjectSize(content) ==
    IF content.json
    THEN 1 + Len(content.subject) + Len(content.text) + Len(content.html)
    ELSE content.att

\* obj.object_name.endswith('_email.json')
EndsWithEmailJson(name) == name.file = "email.json"

\* the test of line 286
IsEmailObject(name) == EndsWithEmailJson(name)

RECURSIVE SumSizes(_, _)
SumSizes(st, names) ==
    IF names = << >> THEN 0
    ELSE ObjectSize(st[Head(names)]) + SumSizes(st, Tail(names))

\* get_statistics, lines 280-298; list_objects works or raises
GetStatistics(st, t, ok) ==
    IF ~ok THEN [error |-> "S3Error"]
    ELSE LET objects == ListObjects(st)
         IN [total_emails_received |->
                 Len(SelectSeq(objects, LAMBDA obj : IsEmailObject(obj))),
             total_attachments |->
                 Len(SelectSeq(objects, LAMBDA obj : ~IsEmailObject(obj))),
             bucket_size_bytes |-> SumSizes(st, objects),
             last_updated |-> t]

----------------------------------------------------------------------------
(* The MCP endpoints that read one message *)

\* An endpoint either returns a body or raises a class with a status.
Returns(body) == [raised |-> FALSE, status |-> 200, body |-> body]

RaisesHttp(status) == [raised |-> TRUE, cls |-> "HTTPException", status |-> status]

\* raise HTTPException(status_code=404, ...), lines 370 and 390
NotFound == RaisesHttp(404)

\* raise HTTPException(status_code=500, ...), lines 373 and 395
InternalError == RaisesHttp(500)

\* except Exception as e: raise HTTPException(status_code=500, ...)
ExceptException(outcome) ==
    IF outcome.raised /\ IsInstance(outcome.cls, "Exception")
    THEN InternalError
    ELSE outcome

\* what the client receives
HttpResponse(outcome) ==
    IF outcome.raised THEN [status |-> outcome.status]
    ELSE [status |-> outcome.status, body |-> outcome.body]

\* the first email of the list with the id, 0 when there is none
IndexOfId(all_emails, email_id) ==
    LET hits == {i \in DOMAIN all_emails : all_emails[i].id = email_id}
    IN IF hits = {} THEN 0 ELSE CHOOSE i \in hits : \A j \in hits : i <= j

\* lines 342-368: the MCPEmailDetail of a record
EmailDetail(email) ==
    [id |-> email.id,
     subject |-> email.subject,
     from_address |-> email.from.address,
     from_name |-> email.from.name,
     to_addresses |-> ToAddresses(email.to),
     received_at |-> email.received_at,
     text_content |-> email.text,
     html_content |-> email.html,
     attachments |-> email.attachments,
     metadata |-> [processed_at |-> email.processed_at,
                   has_attachments |-> Len(email.attachments) > 0,
                   content_length |-> Len(email.text \o email.html)]]

\* mcp_get_email_detail, lines 324-373
McpGetEmailDetail(st, email_id) ==
    LET all_emails == GetReceivedEmails(st, SearchLimit, 0)
        i == IndexOfId(all_emails, email_id)
    IN ExceptException(IF i # 0 THEN Returns(EmailDetail(all_emails[i]))
                       ELSE NotFound)

\* _extract_main_topic, lines 226-240
ExtractMainTopic(subject) ==
    LET subject_lower == LowerStr(subject)
    IN IF AnyIn(<<<<"p", "e", "d", "i", "d", "o">>, <<"o", "r", "d", "e", "r">>>>, subject_lower)
       THEN "Pedidos e Compras"
       ELSE IF AnyIn(<<<<"s", "u", "p", "o", "r", "t", "e">>, <<"s", "u", "p", "p", "o", "r", "t">>>>, subject_lower)
       THEN "Suporte Técnico"
       ELSE IF AnyIn(<<<<"r", "e", "u", "n", "i", "ã", "o">>, <<"m", "e", "e", "t", "i", "n", "g">>>>, subject_lower)
       THEN "Agendamento"
       ELSE IF AnyIn(<<<<"r", "e", "l", "a", "t", "ó", "r", "i", "o">>, <<"r", "e", "p", "o", "r", "t">>>>, subject_lower)
       THEN "Relatórios"
       ELSE "Geral"

\* _estimate_urgency, lines 260-269
EstimateUrgency(email_data) ==
    LET priority == EstimatePriority(email_data)
    IN IF priority = "high" THEN "high"
       ELSE IF priority = "medium" THEN "medium"
       ELSE "low"

\* Python's None
None == [none |-> TRUE]

\* get_email_context, lines 169-224: None when the id is not in the list
GetEmailContext(st, email_id) ==
    LET all_emails == GetReceivedEmails(st, SearchLimit, 0)
        i == IndexOfId(all_emails, email_id)
        target_email == all_emails[i]
        from_address == target_email.from.address
        related == SelectSeq(all_emails, LAMBDA email : email.from.address = from_address)
    IN IF i = 0 THEN None
       ELSE [conversation_id |-> <<"conv", email_id>>,
             email_thread |-> [j \in DOMAIN related |-> related[j].id],
             participants |->
                 {from_address} \cup
                 UNION {Range(ToAddresses(all_emails[j].to)) : j \in DOMAIN all_emails},
             topic |-> ExtractMainTopic(target_email.subject),
             sentiment |-> EstimateSentiment(target_email),
             urgency |-> EstimateUrgency(target_email),
             last_activity |-> target_email.received_at]

\* mcp_get_email_context, lines 375-395
McpGetEmailContext(st, email_id) ==
    LET context == GetEmailContext(st, email_id)
    IN ExceptException(IF context = None THEN NotFound
                       ELSE Returns(context))

\* mcp_get_emails, lines 281-322: the summaries of a page, filtered
McpGetEmails(st, limit, offset, category, priority) ==
    LET emails == GetReceivedEmails(st, limit, offset)
        normalized == [i \in DOMAIN emails |-> NormalizeEmailForLlm(emails[i])]
    IN Returns(SelectSeq(normalized, LAMBDA n :
                   /\ (category # "" => n.category = category)
                   /\ (priority # "" => n.priority = priority)))

----------------------------------------------------------------------------
(* The callers of the read side *)

\* a variant that keeps what it returned in the bucket
ReadFrameKeeps ==
    /\ store' = PutObject(store, [stamp |-> NoStamp, id |-> 0, att |-> 0,
                                  file |-> "response.json"], response')
    /\ UNCHANGED <<now, inbox, read, rcv, faults, marked, listed, saves,
                   outVars, query, found>>

\* a call of the read side changes nothing but the answer
ReadFrame == UNCHANGED <<inVars, outVars, query, found>>

ListEmails(limit, offset) ==
    /\ request' = [op |-> "list", limit |-> limit, offset |-> offset]
    /\ response' = GetReceivedEmails(store, limit, offset)
    /\ ReadFrame

\* the limits a client pages with
PageLimits == {1, 2, 3}

\* A client reads the bucket page by page: offsets 0, limit, 2 * limit, ...
\* until the page past the last object.
Pages(limit) ==
    /\ request' = [op |-> "pages", limit |-> limit]
    /\ response' = [p \in 1..((Cardinality(DOMAIN store) + limit - 1) \div limit + 1) |->
                        GetReceivedEmails(store, limit, (p - 1) * limit)]
    /\ ReadFrame

Statistics(ok) ==
    /\ request' = [op |-> "statistics"]
    /\ response' = GetStatistics(store, now, ok)
    /\ ReadFrame

EmailDetailCall(email_id) ==
    /\ request' = [op |-> "detail", email_id |-> email_id]
    /\ response' = HttpResponse(McpGetEmailDetail(store, email_id))
    /\ ReadFrame

EmailContextCall(email_id) ==
    /\ request' = [op |-> "context", email_id |-> email_id]
    /\ response' = HttpResponse(McpGetEmailContext(store, email_id))
    /\ ReadFrame

EmailsCall(limit, offset, category, priority) ==
    /\ request' = [op |-> "emails", limit |-> limit, offset |-> offset,
                   category |-> category, priority |-> priority]
    /\ response' = HttpResponse(McpGetEmails(store, limit, offset, category, priority))
    /\ ReadFrame

\* the limits asked for
Limits == {1, DefaultLimit}

\* The bucket is filled by one pass over the messages, in which only the
\* attachments can fail: every message has at most one record.
NextRead ==
    \/ ArriveNext
    \/ \E m \in MsgIds, outcome \in SeqsOver(AttOutcomes) :
          saves[m] = << >> /\ Ingest(m, TRUE, TRUE, outcome)
    \/ \E limit \in Limits, offset \in 0..1 : ListEmails(limit, offset)
    \/ \E limit \in PageLimits : Pages(limit)
    \/ \E ok \in BOOLEAN : Statistics(ok)
    \/ \E email_id \in MsgIds : EmailDetailCall(email_id)
    \/ \E email_id \in MsgIds : EmailContextCall(email_id)
    \/ \E category \in {"", "general"}, priority \in {"", "high"} :
          EmailsCall(DefaultLimit, 0, category, priority)
    \/ Search(<<"o", "k">>)

InitRead == InitOutIdle /\ InitInIdle

SpecRead == InitRead /\ [][NextRead]_vars

----------------------------------------------------------------------------
(* PROPERTIES OF THE READ SIDE, checked under SpecRead *)

\* the record normalized from the payload of a source message
NormalizedPayload(m) == ProcessedEmail(m, FullEmail(m), 0)

RoundTripFields ==
    {"id", "from", "to", "subject", "text", "html", "attachments", "received_at"}

\* the fields of the message as a read by id shows them
ShownMessage(body) ==
    [id |-> body.id,
     from |-> [address |-> body.from_address, name |-> body.from_name],
     to |-> body.to_addresses,
     subject |-> body.subject,
     text |-> body.text_content,
     html |-> body.html_content,
     attachments |-> body.attachments,
     received_at |-> body.received_at]

\* C23: a persisted message read back, by a listing or by its id, shows the
\* fields id, from, to, subject, text, html, attachments and received_at with
\* the values normalized from the payload.
C23_RoundTrip ==
    [][/\ \A limit \in Limits, offset \in 0..1 :
              ListEmails(limit, offset) =>
                  \A i \in DOMAIN response' : \A f \in RoundTripFields :
                      response'[i][f] = NormalizedPayload(response'[i].id)[f]
       /\ \A m \in MsgIds :
              (EmailDetailCall(m) /\ Persisted(m)) =>
                  /\ response'.status = 200
                  /\ \A f \in RoundTripFields :
                         ShownMessage(response'.body)[f] = NormalizedPayload(m)[f]]_vars

RECURSIVE TotalSize(_, _)
TotalSize(st, names) ==
    IF names = {} THEN 0
    ELSE LET k == CHOOSE n \in names : TRUE
         IN ObjectSize(st[k]) + TotalSize(st, names \ {k})

\* C24: statistics counts the message records and the attachment objects of
\* the bucket; the two counts add up to the number of objects and the size is
\* the sum of the object sizes.
C24_StatisticsCountObjects ==
    [][Statistics(TRUE) =>
          /\ response'.total_emails_received = Cardinality(Records(store))
          /\ response'.total_attachments = Cardinality(DOMAIN store \ Records(store))
          /\ response'.total_emails_received + response'.total_attachments
                 = Cardinality(DOMAIN store)
          /\ response'.bucket_size_bytes = TotalSize(store, DOMAIN store)]_vars

\* C26: a lookup, of the detail or of the context, by an id that has no
\* record answers 404.
C26_NotFoundIs404 ==
    [][\A m \in MsgIds :
          ((EmailDetailCall(m) \/ EmailContextCall(m)) /\ ~Persisted(m)) =>
              response'.status = 404]_vars

\* a call of the read side
ReadCall ==
    \/ \E limit \in Limits, offset \in 0..1 : ListEmails(limit, offset)
    \/ \E limit \in PageLimits : Pages(limit)
    \/ \E q \in Queries : Search(q)
    \/ \E ok \in BOOLEAN : Statistics(ok)
    \/ \E email_id \in MsgIds : EmailDetailCall(email_id)
    \/ \E email_id \in MsgIds : EmailContextCall(email_id)
    \/ \E category \in {"", "general"}, priority \in {"", "high"} :
          EmailsCall(DefaultLimit, 0, category, priority)

\* what the receiver puts into the bucket: records and attachment contents
IngestedObjects ==
    {ProcessedEmail(m, FullEmail(m), t) : m \in MsgIds, t \in 0..MaxTicks}
    \cup UNION {{AttachmentContent(m, Attachments(m)[i]) :
                     i \in DOMAIN Attachments(m)} : m \in MsgIds}

\* C25: listing, search, statistics and the normalized views (detail,
\* context, summaries with their priority and category) leave the bucket as it
\* is, and the bucket never holds anything but records and attachments.
C25_ReadSideReadOnly ==
    [][/\ ReadCall => store' = store
       /\ \A k \in DOMAIN store' : store'[k] \in IngestedObjects]_vars

\* summaries were made of a bucket that holds records
C25_Witness ==
    /\ request.op = "emails"
    /\ response.status = 200
    /\ response.body # << >>
    /\ Records(store) # {}

----------------------------------------------------------------------------
(* THE ORDER OF THE STEPS OF A POLL CYCLE, checked under SpecRecv *)

\* The moves of the loop from one position to the next: the fetch leads to
\* the first message or, with nothing unread, to the sleep; a message is
\* processed, handed to the callback if there is one, and marked; the mark
\* leads to the next message or to the sleep; an exception of the callback
\* leads to the sleep; the sleep leads to the next fetch.
CycleMoves ==
    {<<"fetch", "process">>, <<"fetch", "sleep">>,
     <<"process", "callback">>, <<"process", "mark">>,
     <<"callback", "mark">>, <<"callback", "sleep">>,
     <<"mark", "process">>, <<"mark", "sleep">>,
     <<"sleep", "fetch">>}

\* the messages of the batch before position i
Before(batch, i) == {batch[j] : j \in 1..(i - 1)}

\* C27: a cycle fetches once, processes the fetched messages one at a time in
\* the fetched order, does not fetch while it processes, and sleeps only when
\* all the fetched messages were processed and marked or an exception ended
\* the cycle.
C27_CycleStateMachine ==
    [][LET a == rcv["r1"]
           b == rcv'["r1"]
       IN /\ a # b => <<a.pc, b.pc>> \in CycleMoves
          /\ b.batch # a.batch => a.pc = "fetch"
          /\ listed' # listed => a.pc = "fetch"
          /\ (a.pc = "process" /\ b.pc # "process") =>
                 /\ a.processed = Before(a.batch, a.idx)
                 /\ b.processed = a.processed \cup {a.batch[a.idx]}
          /\ (a.pc = "mark" /\ b.pc = "process") => b.idx = a.idx + 1
          /\ (a.pc # "sleep" /\ b.pc = "sleep") =>
                 \/ b.raised
                 \/ /\ b.processed = Range(b.batch)
                    /\ Range(b.batch) \subseteq marked']_vars

\* the loop sleeps after a cycle that processed two messages
C27_Witness ==
    /\ rcv["r1"].pc = "sleep"
    /\ Len(rcv["r1"].batch) = 2
    /\ rcv["r1"].processed = Range(rcv["r1"].batch)
    /\ ~rcv["r1"].raised

\* C28: a message that was marked consumed has every attachment of its
\* descriptors in the bucket, under the key {id}_{attachment id}_{filename}.
C28_AttachmentsBeforeMark ==
    \A m \in marked : \A i \in DOMAIN Attachments(m) :
        AttachmentName(m, Attachments(m)[i]) \in DOMAIN store

\* C29: a message the source holds as read is not fetched, processed or
\* persisted again; a message whose mark call failed is still unread, and a
\* fetch returns every unread message the source holds, so that the next
\* cycle processes it again.
C29_ReadNeverAgainUnreadAgain ==
    [][LET a == rcv["r1"]
           b == rcv'["r1"]
       IN /\ (a.pc = "fetch" /\ b.pc # "fetch") => Range(b.batch) \cap read = {}
          /\ (a.pc = "process" /\ b.pc # "process") => a.batch[a.idx] \notin read
          /\ \A m \in MsgIds : saves'[m] # saves[m] => m \notin read
          /\ Mark("r1", FALSE) => a.batch[a.idx] \notin read'
          /\ Fetch("r1", TRUE) =>
                 Range(b.batch) = {m \in Range(inbox) : m \notin read}]_vars

\* message 1 was persisted in two cycles and then marked read
C29_Witness ==
    /\ Len(saves[1]) = 2
    /\ saves[1][1] # saves[1][2]
    /\ 1 \in read

----------------------------------------------------------------------------
(* THE ORDER OF THE SMTP CALLS, checked under SpecSend *)

\* the calls the configuration asks for, in order
ExpectedCalls ==
    <<"connect">>
    \o (IF ~cfg.use_ssl /\ cfg.use_tls THEN <<"starttls">> ELSE << >>)
    \o (IF cfg.use_password THEN <<"login">> ELSE << >>)
    \o <<"sendmail">>

\* the calls a dispatch made so far, without the QUIT that ends the connection
CallsMade(id) == SelectSeq(task[id].smtp, LAMBDA step : step # "quit")

IsPrefix(s, t) == Len(s) <= Len(t) /\ s = SubSeq(t, 1, Len(s))

\* C30: the calls of a dispatch are the connection, STARTTLS exactly when
\* the relay is not on implicit SSL and use_tls is set, the login exactly when
\* use_password is set, and sendmail, in this order; a call is made only when
\* every call before it was made and worked.
C30_SmtpCallsInOrder ==
    \A id \in RequestIds :
        LET calls == CallsMade(id)
        IN /\ IsPrefix(calls, ExpectedCalls)
           /\ task[id].pc \in {"starttls", "login", "sendmail"} =>
                  /\ task[id].exc = "none"
                  /\ IsPrefix(Append(calls, task[id].pc), ExpectedCalls)
           /\ task[id].sent => calls = ExpectedCalls
           /\ (task[id].exc # "none" /\ task[id].text \in Range(ExpectedCalls)) =>
                  calls[Len(calls)] = task[id].text

\* a dispatch that made all four calls and sent the message
C30_Witness ==
    \E id \in RequestIds :
        /\ task[id].sent
        /\ CallsMade(id) = <<"connect", "starttls", "login", "sendmail">>

----------------------------------------------------------------------------
(* PROPERTIES OF THE PREVIEW AND OF THE SENTIMENT, checked under SpecClassify *)

\* the first n characters of a string, the whole string when it is shorter
FirstChars(str, n) == [i \in 1..(IF Len(str) < n THEN Len(str) ELSE n) |-> str[i]]

Placeholder == <<"S", "e", "m", " ", "c", "o", "n", "t", "e", "ú", "d", "o">>

\* C31: the content preview is the first 200 characters of the plain text
\* when the text is not empty, otherwise the first 200 characters of the HTML
\* body, otherwise a fixed placeholder; it is never longer than 200 characters.
C31_PreviewOfTextElseHtml ==
    Normalized =>
        LET e == request.email_data
            preview == response.content_preview
        IN /\ e.text # << >> => preview = FirstChars(e.text, 200)
           /\ (e.text = << >> /\ e.html # << >>) => preview = FirstChars(e.html, 200)
           /\ (e.text = << >> /\ e.html = << >>) => preview = Placeholder
           /\ Len(preview) <= 200

\* no text and an HTML body of 201 characters: the preview is cut to 200
C31_Witness ==
    /\ Normalized
    /\ request.email_data.text = << >>
    /\ Len(request.email_data.html) = 201
    /\ Len(response.content_preview) = 200
    /\ response.content_preview[1] = "<"

\* the number of words of the list that occur in the subject or in the text
Occurring(email_data, words) ==
    Cardinality({i \in DOMAIN words : Mentions(email_data, words[i])})

SentimentAsked == request.op = "sentiment"

\* C32: the sentiment is one label of {positive, negative, neutral}: positive
\* when more positive than negative keywords occur in the subject or the text,
\* negative when more negative than positive keywords occur, neutral on a tie;
\* a message with a negative keyword and no positive keyword is negative.
C32_SentimentByKeywordCount ==
    SentimentAsked =>
        LET e == request.email_data
            positive == Occurring(e, positive_words)
            negative == Occurring(e, negative_words)
        IN /\ response.sentiment \in {"positive", "negative", "neutral"}
           /\ response.sentiment = "positive" <=> positive > negative
           /\ response.sentiment = "negative" <=> negative > positive
           /\ response.sentiment = "neutral" <=> positive = negative
           /\ (negative > 0 /\ positive = 0) => response.sentiment = "negative"

\* the sample email of the test, found negative
C32_Witness ==
    /\ SentimentAsked
    /\ request.email_data.subject = SampleSubject
    /\ request.email_data.text = SampleText
    /\ response.sentiment = "negative"

\* the subject speaks of a system problem
SystemProblem(email_data) ==
    /\ Contains(LowerStr(email_data.subject), <<"p", "r", "o", "b", "l", "e", "m", "a">>)
    /\ Contains(LowerStr(email_data.subject), <<"s", "i", "s", "t", "e", "m", "a">>)

\* C33: the sample email of the normalization test, and any message whose
\* subject speaks of a system problem ("problema", "sistema"), has the
\* category support.
C33_SystemProblemIsSupport ==
    Normalized =>
        /\ (/\ request.email_data.subject = SampleSubject
            /\ request.email_data.from = SampleSender) => response.category = "support"
        /\ SystemProblem(request.email_data) => response.category = "support"

----------------------------------------------------------------------------
(* PROPERTIES OF THE RESULT AFTER THE TRANSMISSION, checked under SpecSend *)

\* the paths of the failure results of the id in a result store
FailuresOf(fs, id) == {p \in DOMAIN fs : p[3] = id /\ fs[p].status = "failure"}

\* C34: a success result exists for an id only when sendmail returned without
\* error for that id, and no failure result is written for an id after its
\* sendmail returned without error.
C34_ResultFollowsTransmission ==
    [][\A id \in RequestIds :
          /\ (\E p \in DOMAIN results' : p[3] = id /\ results'[p].status = "success")
                => task'[id].sent
          /\ task[id].sent =>
                \A p \in FailuresOf(results', id) :
                    p \in FailuresOf(results, id) /\ results'[p] = results[p]]_vars

----------------------------------------------------------------------------
(* ATTACHMENT ISOLATION, checked under SpecIngest *)

\* the attachment objects of message m in a bucket
AttachmentObjects(st, m) == {k \in DOMAIN st : k.stamp = NoStamp /\ k.id = m}

\* C35: when process_received_email has saved the record of a message, each
\* attachment that failed to download or to be put costs that attachment
\* alone: the others are in the bucket, the record of the message is in the
\* bucket, and no object that was in the bucket is gone.
C35_AttachmentIsolation ==
    [][\A m \in MsgIds :
          saves'[m] # saves[m] =>
              /\ Cardinality(AttachmentObjects(store', m))
                     >= Len(Attachments(m)) - (faults' - faults)
              /\ ObjectName(now, m) \in DOMAIN store'
              /\ store'[ObjectName(now, m)] = ProcessedEmail(m, FullEmail(m), now)
              /\ DOMAIN store \subseteq DOMAIN store']_vars

\* the first attachment of message 1 failed: its record and its second
\* attachment are stored, the first attachment is not
C35_Witness ==
    /\ faults = 1
    /\ Len(saves[1]) = 1
    /\ Persisted(1)
    /\ AttachmentName(1, Attachments(1)[2]) \in DOMAIN store
    /\ AttachmentName(1, Attachments(1)[1]) \notin DOMAIN store

----------------------------------------------------------------------------
(* PROPERTIES OF get_received_emails, checked under SpecRead *)

\* C36: every element get_received_emails returns is the content of an object
\* save_received_email wrote, never the content of an attachment object of the
\* bucket, and the result has at most `limit` elements.
C36_ListReturnsRecordsOnly ==
    [][\A limit \in Limits, offset \in 0..1 :
          ListEmails(limit, offset) =>
              /\ \A i \in DOMAIN response' :
                    /\ \E k \in Records(store) : store[k] = response'[i]
                    /\ ~\E k \in DOMAIN store \ Records(store) : store[k] = response'[i]
              /\ Len(response') <= limit]_vars

\* the pages of an answer, one after the other
RECURSIVE Concat(_)
Concat(pages) ==
    IF pages = << >> THEN << >> ELSE Head(pages) \o Concat(Tail(pages))

\* C37: with the bucket unchanged, the pages get_received_emails(limit, 0),
\* (limit, limit), (limit, 2 * limit), ... return every record of the bucket
\* exactly once: none is skipped and none is in two pages.
C37_PagesCoverTheStore ==
    [][\A limit \in PageLimits :
          Pages(limit) =>
              \A k \in Records(store) : Count(Concat(response'), store[k]) = 1]_vars

\* two records read with pages of one object: each record in a page of its own
C37_Witness ==
    /\ request.op = "pages"
    /\ request.limit = 1
    /\ Cardinality(Records(store)) = 2
    /\ Cardinality(DOMAIN store) = 4
    /\ Len(response[1]) = 1
    /\ Len(response[2]) = 1
    /\ response[1] # response[2]
    /\ \A k \in Records(store) : store[k] \in {response[1][1], response[2][1]}

----------------------------------------------------------------------------
(* THE CALLBACK OF THE POLL LOOP, checked under SpecRecv *)

\* the cycle of the loop ends with this step
CycleEnds(a, b) == a.pc # "sleep" /\ b.pc = "sleep"

\* What holds of the callback in every step of a loop that was given one: it
\* is invoked at most once for a message in a cycle, for the message
\* process_received_email has just returned for and before that message is
\* marked; the mark is invoked only for the message whose callback has
\* completed in the cycle.
CallbackStep(a, b) ==
    /\ \A m \in MsgIds : Count(b.called, m) <= 1
    /\ (b.called # a.called /\ b.called # << >>) =>
          /\ a.pc = "callback"
          /\ b.called = Append(a.called, a.batch[a.idx])
          /\ a.batch[a.idx] \in a.processed
    /\ (a.pc = "mark" /\ b # a) =>
          /\ a.called # << >>
          /\ a.called[Len(a.called)] = a.batch[a.idx]
          /\ <<"callback", a.idx>> \notin a.fails

\* C38 as stated: the callback is invoked exactly once for every message the
\* cycle fetched, after process_received_email returned for the message and
\* before its mark; no message is marked in a cycle in which its callback did
\* not complete.
C38_CallbackOncePerFetched ==
    [][LET a == rcv["r1"]
           b == rcv'["r1"]
       IN a.callback =>
             /\ CallbackStep(a, b)
             /\ CycleEnds(a, b) =>
                   \A m \in Range(b.batch) : Count(b.called, m) = 1]_vars

\* C38 as amended: the callback is invoked at most once for a message in a
\* cycle, and exactly once for every fetched message when no callback raised
\* in the cycle; a callback that raises ends the cycle, and the messages
\* after it in the batch get no callback in that cycle.
C38_CallbackOncePerReached ==
    [][LET a == rcv["r1"]
           b == rcv'["r1"]
       IN a.callback =>
             /\ CallbackStep(a, b)
             /\ CycleEnds(a, b) =>
                   IF b.raised
                   THEN b.called = SubSeq(b.batch, 1, b.idx)
                   ELSE b.called = b.batch]_vars

\* a cycle of two messages is over: the callback was invoked for both, in
\* the order of the batch, and both are marked
C38_Witness ==
    /\ rcv["r1"].callback
    /\ rcv["r1"].pc = "sleep"
    /\ ~rcv["r1"].raised
    /\ Len(rcv["r1"].batch) = 2
    /\ rcv["r1"].called = rcv["r1"].batch
    /\ Range(rcv["r1"].batch) \subseteq read

====
